---- MODULE Spec2Model ----
(***************************************************************************)
(* Model of the search-judge refinement pipeline of github-nl-search-worker *)
(* (src/search.ts, src/judge.ts, src/github.ts, src/db.ts), of its event    *)
(* coalescer (src/util.ts), of its two rate limiters (src/scaffolder.ts)   *)
(* and of its entry points (src/index.ts, routes.ts, ws.ts, mcp.ts).        *)
(*                                                                         *)
(* Every await of the TypeScript code is a point where another invocation  *)
(* of the worker can run, so each action below is the code between two     *)
(* awaits.  Scores are kept in hundredths (0.65 is 65), a median as twice   *)
(* its value and a mean as the pair sum / count, so that every comparison  *)
(* of the code is an exact comparison of integers.                         *)
(***************************************************************************)
EXTENDS Integers, Sequences, FiniteSets, TLC

VARIABLES
    search_attempts,  \* table search_attempts, in id order (id = position)
    repos,            \* table repos: set of rows, id is the primary key
    search_results,   \* table search_results: set of rows, unique per (session, attempt, repo)
    judge_reviews,    \* table judge_reviews, in id order
    pc,               \* per invocation: the await it is suspended at
    options,          \* per invocation: SearchOptions
    searchWithin,     \* per invocation: runSearchLifecycle.searchWithin (repo ids)
    currentQuery,     \* per invocation: runSearchLifecycle.currentQuery
    attemptIndex,     \* per invocation: runSearchLifecycle.attemptIndex
    attempts,         \* per invocation: runSearchLifecycle.attempts (round summaries)
    round,            \* per invocation: the locals of executeSingleSearch
    log,              \* per invocation: the replies of the provider and of the judge so far
    events,           \* per invocation: the calls of options.callbacks, in order
    outcome,          \* per invocation: "pending", "returned" or "error"
    coalescer,        \* the closure of one coalesceEvents(...) and the timers it has armed
    call,             \* one call of a function: its name, its argument, its result
    limiter,          \* one RateLimiter durable object: memory, storage, alarm, calls in flight
    buckets,          \* ratelimit.ts: the Map of token buckets, one per client address
    clock,            \* Date.now() of the worker that holds buckets, in milliseconds
    trigger,          \* per invocation: the entry point that asked for it and its admission
    ws                \* ws.ts: the socket of one session, its two coalescers, the messages sent

vars == <<search_attempts, repos, search_results, judge_reviews, pc,
          options, searchWithin, currentQuery, attemptIndex, attempts, round, log, events,
          outcome, coalescer, call, limiter, buckets, clock, trigger, ws>>

store == <<search_attempts, repos, search_results, judge_reviews>>

lifecycle == <<store, pc, options, searchWithin, currentQuery, attemptIndex, attempts,
               round, log, events, outcome, ws>>

\* what the actions of the lifecycle leave alone
others == <<coalescer, call, limiter, buckets, clock, trigger>>

\* what the actions of the coalescer, of a function call, of the durable limiter and of
\* the in-process limiter leave alone
exceptCoalescer == <<lifecycle, call, limiter, buckets, clock, trigger>>
exceptCall == <<lifecycle, coalescer, limiter, buckets, clock, trigger>>
exceptLimiter == <<lifecycle, coalescer, call, buckets, clock, trigger>>
exceptSocket == <<store, pc, options, searchWithin, currentQuery, attemptIndex, attempts,
                  round, log, events, outcome, others>>


\* An optional value (undefined, null, NaN) is the empty sequence, a present one <<v>>.
None == <<>>
Some(v) == <<v>>
Get(o) == o[1]

(***************************************************************************)
(* Bounds of the model and constants of the program.                       *)
(***************************************************************************)
MaxPolicyAttempts == 3
DefaultMaxAttempts == 3
DefaultMinScore == 65
FallbackMaxAttempts == 1
FallbackMinScore == 65
Top5MeanThreshold == 75
Top5 == 5
MaxFindings == 500
MinRecommendations == 1
MaxRecommendations == 5
MaxNote == 240
MaxScore == 100
JudgeRepoCap == 20
ExcerptCap == 2000
ReadmeLength == 2500

Clients == {"ip1", "ip2"}
Procs == {"inv1", "inv2"}
Sessions == {"s1", "s2"}
NodeIds == {"n1", "n2"}
InitialQuery == "q0"

\* what reading node_id or full_name gives on an item of the 'session-bias' response,
\* whose fields sit one level down, under .repo
Undefined == "undefined"

FullName(n) == IF n = "n1" THEN "o/r1" ELSE IF n = "n2" THEN "o/r2" ELSE Undefined

\* the validation token the provider sends with the content of a README
ProviderEtag == "etag-1"

(***************************************************************************)
(* What the callers and the two external services can answer.              *)
(***************************************************************************)
RetryPolicies ==
    {None} \cup {Some(p) : p \in [max_attempts : {None} \cup {Some(n) : n \in 0..MaxPolicyAttempts},
                                  min_score : {None, Some(90)}]}

\* buildSearchQueries: the three templates with baseKeywords, else the one query
QueryCount(baseKeywords) == IF baseKeywords THEN 3 ELSE 1

\* json.items of every expanded query of a round, in query order
SearchItemLists ==
    { <<<<"n1">>>>, <<<<"n1", "n2">>>>, <<<<"n1", "n1">>>>,
      <<<<"n2">>, <<"n2">>, <<>>>>, <<<<"n1">>, <<"n2">>, <<>>>> }
SearchReplies == {[ok |-> FALSE, items |-> <<>>]} \cup [ok : {TRUE}, items : SearchItemLists]

\* the provider's answers to a README fetch; 304 only answers a conditional request
ReadmeReplies(etag) == {"ok", "not_found", "error"} \cup (IF etag = None THEN {} ELSE {"not_modified"})

Recommendations == {<<>>, <<"qA">>, <<"qB", "qA">>}
PerRepoLists ==
    { <<[full_name |-> "o/r1", score |-> 50, note |-> 5],
        [full_name |-> "o/r2", score |-> 30, note |-> 5]>>,
      <<[full_name |-> "o/r1", score |-> 70, note |-> 5]>>,
      <<[full_name |-> "o/r2", score |-> 80, note |-> 5]>> }
JudgeBodies ==
    [overall_findings : {10}, recommendations : Recommendations, per_repo : PerRepoLists]
\* a narrative of 501 characters
LongBody ==
    [overall_findings |-> 501, recommendations |-> <<"qA">>,
     per_repo |-> <<[full_name |-> "o/r1", score |-> 70, note |-> 5]>>]
\* bodies on the limits of the schema and one step outside each of them
EdgeBodies ==
    LET ok == [overall_findings |-> MaxFindings,
               recommendations |-> <<"qA", "qB", "qA", "qB", "qA">>,
               per_repo |-> <<[full_name |-> "o/r1", score |-> 0, note |-> MaxNote],
                              [full_name |-> "o/r2", score |-> MaxScore, note |-> 0]>>]
    IN  { ok,
          [ok EXCEPT !.recommendations = <<"qA", "qB", "qA", "qB", "qA", "qB">>],
          [ok EXCEPT !.per_repo = <<>>],
          [ok EXCEPT !.per_repo[1].score = 0 - 1],
          [ok EXCEPT !.per_repo[2].score = MaxScore + 1],
          [ok EXCEPT !.per_repo[1].note = MaxNote + 1] }
JudgeReplies ==
    {[kind |-> "http_error", body |-> None], [kind |-> "empty", body |-> None]}
    \cup [kind : {"content"}, body : {Some(b) : b \in JudgeBodies \cup {LongBody} \cup EdgeBodies}]

(***************************************************************************)
(* Pure functions.                                                         *)
(***************************************************************************)
Max(S) == CHOOSE x \in S : \A y \in S : y <= x

RECURSIVE SumSeq(_)
SumSeq(s) == IF s = <<>> THEN 0 ELSE Head(s) + SumSeq(Tail(s))

\* Array.prototype.sort((a, b) => a - b)
RECURSIVE SortAscending(_)
SortAscending(s) ==
    IF s = <<>> THEN <<>>
    ELSE LET i == CHOOSE k \in 1..Len(s) : \A j \in 1..Len(s) : s[k] <= s[j]
             rest == [j \in 1..(Len(s) - 1) |-> IF j < i THEN s[j] ELSE s[j + 1]]
         IN  <<s[i]>> \o SortAscending(rest)

\* scores.slice(-5)
LastN(s, n) == IF Len(s) <= n THEN s ELSE SubSeq(s, Len(s) - n + 1, Len(s))

\* the sort forgotten
computeStatistics_unsorted(perRepo) ==
    LET scores == [i \in 1..Len(perRepo) |-> perRepo[i].score]
        mid == Len(scores) \div 2
        top5 == LastN(scores, Top5)
    IN  [median2 |-> IF Len(scores) % 2 = 1 THEN Some(2 * scores[mid + 1])
                     ELSE IF Len(scores) = 0 THEN None
                     ELSE Some(scores[mid] + scores[mid + 1]),
         top5Sum |-> SumSeq(top5),
         top5Len |-> Len(top5)]

\* median2 is twice the median; the mean of the top 5 is top5Sum / top5Len
\* (0 when top5Len = 0).  An empty list gives the median NaN (None).
computeStatistics(perRepo) ==
    LET scores == SortAscending([i \in 1..Len(perRepo) |-> perRepo[i].score])
        mid == Len(scores) \div 2
        top5 == LastN(scores, Top5)
    IN  [median2 |-> IF Len(scores) % 2 = 1 THEN Some(2 * scores[mid + 1])
                     ELSE IF Len(scores) = 0 THEN None
                     ELSE Some(scores[mid] + scores[mid + 1]),
         top5Sum |-> SumSeq(top5),
         top5Len |-> Len(top5)]

MedianAtLeast(stats, x) == stats.median2 # None /\ Get(stats.median2) >= 2 * x

Top5MeanAtLeast(stats, x) ==
    IF stats.top5Len = 0 THEN 0 >= x ELSE stats.top5Sum >= x * stats.top5Len

\* the limit on the notes forgotten
JudgeResponseSchema_anyNote(body) ==
    /\ body.overall_findings <= MaxFindings
    /\ Len(body.recommendations) >= MinRecommendations
    /\ Len(body.recommendations) <= MaxRecommendations
    /\ Len(body.per_repo) >= 1
    /\ \A i \in 1..Len(body.per_repo) :
          /\ body.per_repo[i].score >= 0
          /\ body.per_repo[i].score <= MaxScore

JudgeResponseSchema(body) ==
    /\ body.overall_findings <= MaxFindings
    /\ Len(body.recommendations) >= MinRecommendations
    /\ Len(body.recommendations) <= MaxRecommendations
    /\ Len(body.per_repo) >= 1
    /\ \A i \in 1..Len(body.per_repo) :
          /\ body.per_repo[i].score >= 0
          /\ body.per_repo[i].score <= MaxScore
          /\ body.per_repo[i].note <= MaxNote

\* the result of runJudge for one reply of the judge service; None when it throws
runJudge(reply) ==
    IF reply.kind = "http_error" THEN None
    ELSE IF reply.kind = "empty" THEN None
    ELSE IF ~JudgeResponseSchema(Get(reply.body)) THEN None
    ELSE reply.body

\* const retryPolicy = options.retryPolicy ?? { max_attempts: 3, min_score: 0.65 }
RetryPolicyOf(opts) ==
    IF opts.retryPolicy = None
    THEN [max_attempts |-> Some(DefaultMaxAttempts), min_score |-> Some(DefaultMinScore)]
    ELSE Get(opts.retryPolicy)

\* retryPolicy.max_attempts ?? 1
LoopLimit(retryPolicy) ==
    IF retryPolicy.max_attempts = None THEN FallbackMaxAttempts ELSE Get(retryPolicy.max_attempts)

\* retryPolicy.min_score ?? 0.65
MinScoreOf(retryPolicy) ==
    IF retryPolicy.min_score = None THEN FallbackMinScore ELSE Get(retryPolicy.min_score)

\* summary.stats.median >= (retryPolicy.min_score ?? 0.65) || summary.stats.top5Mean >= 0.75
Converged_both(stats, retryPolicy) ==
    /\ MedianAtLeast(stats, MinScoreOf(retryPolicy))
    /\ Top5MeanAtLeast(stats, Top5MeanThreshold)

Converged(stats, retryPolicy) ==
    \/ MedianAtLeast(stats, MinScoreOf(retryPolicy))
    \/ Top5MeanAtLeast(stats, Top5MeanThreshold)

(***************************************************************************)
(* The store (db.ts), one operator per SQL statement or method.            *)
(***************************************************************************)
SessionAttempts(sessionId) == {i \in 1..Len(search_attempts) : search_attempts[i].session_id = sessionId}

\* the WHERE clause forgotten
nextResultGroup_anySession(sessionId) ==
    Max({search_attempts[i].result_group : i \in 1..Len(search_attempts)} \cup {0}) + 1

\* SELECT COALESCE(MAX(result_group), 0) + 1 ... WHERE session_id = ?1
nextResultGroup(sessionId) ==
    Max({search_attempts[i].result_group : i \in SessionAttempts(sessionId)} \cup {0}) + 1

\* INSERT INTO search_attempts ...
InsertAttemptRow(sessionId, resultGroup) ==
    Append(search_attempts,
           [id |-> Len(search_attempts) + 1, session_id |-> sessionId, result_group |-> resultGroup])

\* SELECT * FROM search_attempts WHERE session_id = ?1 ORDER BY id DESC LIMIT 1
LatestAttemptRow(sessionId) == search_attempts[Max(SessionAttempts(sessionId))]

\* INSERT OR REPLACE INTO repos: the rows in conflict (primary key id, unique index on
\* full_name) are deleted, and with them, by ON DELETE CASCADE, the search_results
\* that reference them; then the row is inserted.
RECURSIVE insertRepos(_, _, _)
insertRepos(rows, repoTable, resultTable) ==
    IF rows = <<>> THEN [repos |-> repoTable, search_results |-> resultTable]
    ELSE LET row == Head(rows)
             gone == {r \in repoTable : r.id = row.id \/ r.full_name = row.full_name}
             goneIds == {r.id : r \in gone}
         IN  insertRepos(Tail(rows),
                         (repoTable \ gone) \cup {row},
                         {x \in resultTable : x.repo_id \notin goneIds})

\* the rows are written with a score of 0 in place of null
insertSearchResults_scored(rows, resultTable) ==
    resultTable \cup {[rows[i] EXCEPT !.judge_relevance_score = Some(0)] : i \in 1..Len(rows)}

\* INSERT OR REPLACE in place of INSERT OR IGNORE: the row in conflict is overwritten
RECURSIVE insertSearchResults_replace(_, _)
insertSearchResults_replace(rows, resultTable) ==
    IF rows = <<>> THEN resultTable
    ELSE LET row == Head(rows)
             old == {x \in resultTable :
                        /\ x.session_id = row.session_id
                        /\ x.search_attempt_id = row.search_attempt_id
                        /\ x.repo_id = row.repo_id}
         IN  insertSearchResults_replace(Tail(rows), (resultTable \ old) \cup {row})

\* INSERT OR IGNORE INTO search_results: a row whose (session, attempt, repo) is there is skipped
RECURSIVE insertSearchResults(_, _)
insertSearchResults(rows, resultTable) ==
    IF rows = <<>> THEN resultTable
    ELSE LET row == Head(rows)
             dup == \E x \in resultTable :
                        /\ x.session_id = row.session_id
                        /\ x.search_attempt_id = row.search_attempt_id
                        /\ x.repo_id = row.repo_id
         IN  insertSearchResults(Tail(rows), IF dup THEN resultTable ELSE resultTable \cup {row})

\* UPDATE search_results SET judge_relevance_score, judge_finding WHERE attempt AND repo, per item
RECURSIVE updateResultScores(_, _, _)
updateResultScores(attemptId, scores, resultTable) ==
    IF scores = <<>> THEN resultTable
    ELSE LET item == Head(scores)
         IN  updateResultScores(attemptId, Tail(scores),
                 {IF x.search_attempt_id = attemptId /\ x.repo_id = item.repo_id
                  THEN [x EXCEPT !.judge_relevance_score = Some(item.score),
                                 !.judge_finding = Some(item.note)]
                  ELSE x : x \in resultTable})

\* SELECT id FROM judge_reviews WHERE search_attempt_id = ?1 (first row)
ExistingReview(attemptId) ==
    LET ids == {i \in 1..Len(judge_reviews) : judge_reviews[i].search_attempt_id = attemptId}
    IN  IF ids = {} THEN None ELSE Some(CHOOSE i \in ids : \A j \in ids : i <= j)

\* the INSERT whatever the SELECT found
writeJudgeReview_insert(existing, row) == Append(judge_reviews, row)

\* db.upsertJudgeReview after its SELECT: the UPDATE of the row found, or the INSERT
writeJudgeReview(existing, row) ==
    IF existing = None THEN Append(judge_reviews, row)
    ELSE [judge_reviews EXCEPT ![Get(existing)] =
             [@ EXCEPT !.overall_judge_findings = row.overall_judge_findings,
                       !.judge_recommendations = row.judge_recommendations]]

\* SELECT DISTINCT repo_id FROM search_results WHERE session_id IN (...)
getRepoIdsForSessions(sessionIds) ==
    LET ids == {x.repo_id : x \in {y \in search_results :
                                      \E i \in 1..Len(sessionIds) : sessionIds[i] = y.session_id}}
        RECURSIVE InOrder(_)
        InOrder(S) == IF S = {} THEN <<>>
                      ELSE LET m == CHOOSE x \in S : TRUE IN <<m>> \o InOrder(S \ {m})
    IN  IF sessionIds = <<>> THEN <<>> ELSE InOrder(ids)

(***************************************************************************)
(* Retrieval (github.ts).                                                  *)
(***************************************************************************)
\* dedupeBy(items, getKey), the key being the item itself here (its node_id)
RECURSIVE dedupeBy(_, _)
dedupeBy(items, seen) ==
    IF items = <<>> THEN <<>>
    ELSE IF Head(items) \in seen THEN dedupeBy(Tail(items), seen)
    ELSE <<Head(items)>> \o dedupeBy(Tail(items), seen \cup {Head(items)})

RECURSIVE flatMap(_)
flatMap(responses) ==
    IF responses = <<>> THEN <<>> ELSE Head(responses) \o flatMap(Tail(responses))

\* runGitHubSearch, given json.items of each query: one response per query, deduped
\* by node_id, and a last 'session-bias' response when searchWithinRepos is not empty
runGitHubSearch(perQuery, searchWithinRepos) ==
    [q \in 1..Len(perQuery) |-> dedupeBy(perQuery[q], {})]
    \o (IF searchWithinRepos = <<>> THEN <<>>
        ELSE <<[i \in 1..Len(searchWithinRepos) |-> Undefined]>>)

\* fetchReadme for one answer of the provider; None when it throws.  fetchGitHub throws
\* on every status outside 200..299 (a 304 too), and only a 404 is caught.  The etag
\* returned with the content is the one the caller passed in, not the header of the
\* response (ProviderEtag).  The content is kept as its length.
fetchReadme(reply, etag) ==
    IF reply = "ok" THEN Some([content |-> Some(ReadmeLength), etag |-> etag])
    ELSE IF reply = "not_found" THEN Some([content |-> None, etag |-> None])
    ELSE None

\* search.ts 123-137 for one item; None when it throws.  readme.etag is a string or
\* undefined, never null, so a null content always leads to db.getReadmeContent, a
\* method class Database does not have: the call throws.
withReadme(nodeId, readme) ==
    IF Get(readme).content = None THEN None
    ELSE Some([node_id |-> nodeId, full_name |-> FullName(nodeId),
               etag |-> Get(readme).etag, readme |-> Get(readme).content])

\* what the database does with undefined bound to a statement
D1Undefined == {"rejects", "null"}

\* SELECT full_name, etag FROM repos WHERE full_name IN (...) AND etag IS NOT NULL
getRepoEtag(fullName) ==
    LET rows == {r \in repos : r.full_name = fullName /\ r.etag # None}
    IN  IF rows = {} THEN None ELSE (CHOOSE r \in rows : TRUE).etag

mapRepoToRow(entry) == [id |-> entry.node_id, full_name |-> entry.full_name, etag |-> entry.etag]

Min(a, b) == IF a <= b THEN a ELSE b
MathMax(a, b) == IF a >= b THEN a ELSE b

\* the slices forgotten
judgePayload_uncapped(filteredRepos) ==
    [i \in 1..Len(filteredRepos) |->
        [full_name |-> filteredRepos[i].full_name,
         readme_excerpt |-> IF Get(filteredRepos[i].readme) = 0 THEN None
                            ELSE filteredRepos[i].readme]]

\* judgePayload.repos: the first 20 entries, each with the first 2000 characters of
\* its README (null for an empty README)
judgePayload(filteredRepos) ==
    [i \in 1..Min(Len(filteredRepos), JudgeRepoCap) |->
        [full_name |-> filteredRepos[i].full_name,
         readme_excerpt |-> IF Get(filteredRepos[i].readme) = 0 THEN None
                            ELSE Some(Min(Get(filteredRepos[i].readme), ExcerptCap))]]

\* the judge's scores keyed by repo id: fullNameToNode.get(full_name) ?? full_name
judgeScores(perRepo, items) ==
    [i \in 1..Len(perRepo) |->
        LET at == {k \in 1..Len(items) : FullName(items[k]) = perRepo[i].full_name}
        IN  [repo_id |-> IF at = {} THEN perRepo[i].full_name ELSE items[Max(at)],
             score |-> perRepo[i].score, note |-> perRepo[i].note]]

(***************************************************************************)
(* coalesceEvents (util.ts).  The events emitted are numbered 1, 2, ... in  *)
(* emission order.  coalescer.timers is the runtime's side of setTimeout:  *)
(* the timers armed and neither fired nor cleared; coalescer.batches is    *)
(* the sequence of calls of the emit callback, coalescer.inflight the      *)
(* calls (by their place in batches) whose performFlush is suspended at    *)
(* `await emit(batch)`.  The promises that flush() creates are numbered    *)
(* 1, 2, ...: coalescer.promises is how many there are (the last one is    *)
(* flushPromise while that is set), coalescer.resolved the ones resolved,  *)
(* coalescer.flushes the calls of flush() on a non-empty buffer, each with *)
(* the promise it returned and the events the buffer held at the call.     *)
(***************************************************************************)
MaxBatch == 3
MaxEvents == 4
MaxFlushes == 2

\* the closure coalesceEvents(emit, {maxBatch}) returns
NewCoalescer(maxBatch) ==
    [maxBatch |-> maxBatch, buffer |-> <<>>, timeout |-> None, timers |-> {}, nextTimer |-> 1,
     batches |-> <<>>, emitted |-> 0, inflight |-> {}, flushPromise |-> FALSE,
     resolveFlush |-> FALSE, promises |-> 0, resolved |-> {}, flushes |-> <<>>]

Coalescers == {NewCoalescer(maxBatch) : maxBatch \in 1..MaxBatch}

\* clearTimeout forgotten
performFlush_noClear(c, by) ==
    IF c.buffer = <<>> THEN c
    ELSE [c EXCEPT !.buffer = <<>>,
                   !.timeout = None,
                   !.batches = Append(@, [events |-> c.buffer, by |-> by]),
                   !.inflight = @ \cup {Len(c.batches) + 1}]

\* `buffer = []` forgotten
performFlush_keepBuffer(c, by) ==
    IF c.buffer = <<>> THEN c
    ELSE [c EXCEPT !.timers = IF c.timeout = None THEN @ ELSE @ \ {Get(c.timeout)},
                   !.timeout = None,
                   !.batches = Append(@, [events |-> c.buffer, by |-> by]),
                   !.inflight = @ \cup {Len(c.batches) + 1}]

\* performFlush up to its await: nothing on an empty buffer; else the buffer is taken,
\* the timer cleared and the emit callback called with the batch
performFlush(c, by) ==
    IF c.buffer = <<>> THEN c
    ELSE [c EXCEPT !.buffer = <<>>,
                   !.timers = IF c.timeout = None THEN @ ELSE @ \ {Get(c.timeout)},
                   !.timeout = None,
                   !.batches = Append(@, [events |-> c.buffer, by |-> by]),
                   !.inflight = @ \cup {Len(c.batches) + 1}]

\* setTimeout forgotten
emitEvent_noTimer(c) ==
    LET pushed == [c EXCEPT !.buffer = Append(@, c.emitted + 1), !.emitted = @ + 1]
    IN  IF Len(pushed.buffer) >= pushed.maxBatch THEN performFlush(pushed, "emit")
        ELSE pushed

\* emitEvent(event): push, then a flush at maxBatch events, else the timer if none is set
emitEvent(c) ==
    LET pushed == [c EXCEPT !.buffer = Append(@, c.emitted + 1), !.emitted = @ + 1]
    IN  IF Len(pushed.buffer) >= pushed.maxBatch THEN performFlush(pushed, "emit")
        ELSE IF pushed.timeout = None
             THEN [pushed EXCEPT !.timeout = Some(pushed.nextTimer),
                                 !.timers = @ \cup {pushed.nextTimer},
                                 !.nextTimer = @ + 1]
             ELSE pushed

\* flush(): the pending promise if there is one; on an empty buffer Promise.resolve()
\* and nothing changes; else a new promise and performFlush
flush(c) ==
    LET want == {c.buffer[i] : i \in 1..Len(c.buffer)}
    IN  IF c.flushPromise
        THEN [c EXCEPT !.flushes = Append(@, [promise |-> c.promises, events |-> want])]
        ELSE IF c.buffer = <<>> THEN c
        ELSE performFlush([c EXCEPT !.flushPromise = TRUE,
                                    !.resolveFlush = TRUE,
                                    !.promises = @ + 1,
                                    !.flushes = Append(@, [promise |-> c.promises + 1,
                                                           events |-> want])],
                          "flush")

\* performFlush after `await emit(batch)` of the i-th call of the callback: the pending
\* promise of flush() is resolved, whoever created it
emitReturns(c, i) ==
    IF c.resolveFlush
    THEN [c EXCEPT !.inflight = @ \ {i},
                   !.resolved = @ \cup {c.promises},
                   !.resolveFlush = FALSE,
                   !.flushPromise = FALSE]
    ELSE [c EXCEPT !.inflight = @ \ {i}]

(***************************************************************************)
(* handleSessionWebSocket (ws.ts): the socket of one session.  ws.github   *)
(* and ws.judge are the closures of its two coalesceEvents calls,           *)
(* ws.payloads the events given to each of them, in the order of their      *)
(* numbers, ws.sent the messages passed to server.send.  Both emit          *)
(* callbacks are synchronous and `send` catches what server.send throws:   *)
(* a callback returns as it is called, and the performFlush that awaits it *)
(* goes on in the microtask that follows, before any timer or message.     *)
(***************************************************************************)
GitHubMaxBatch == 20
JudgeMaxBatch == 1

NoSocket == [open |-> FALSE]

Socket ==
    [open |-> TRUE,
     github |-> NewCoalescer(GitHubMaxBatch),
     judge |-> NewCoalescer(JudgeMaxBatch),
     payloads |-> [github |-> <<>>, judge |-> <<>>],
     sent |-> <<>>]

\* const send = (data) => server.send(JSON.stringify(data))
send(w, data) == [w EXCEPT !.sent = Append(@, data)]

\* the emit callback of the github_batch coalescer
githubBatch(batch) ==
    [type |-> "github_batch",
     attempt_id |-> batch[1].attemptId,
     count |-> SumSeq([i \in 1..Len(batch) |-> batch[i].count]),
     repos |-> flatMap([i \in 1..Len(batch) |-> batch[i].repos])]

\* the emit callback of the judge_update coalescer
judgeUpdate(batch) ==
    [type |-> "judge_update",
     attempt_id |-> batch[Len(batch)].attemptId,
     findings |-> batch[Len(batch)].findings,
     recommendations |-> batch[Len(batch)].recommendations]

\* coalescer k of the socket has become c: if c has called its emit callback, the
\* callback sends its message and returns, and performFlush goes on after its await
Coalesced(w, k, c) ==
    IF Len(c.batches) = Len(w[k].batches) THEN [w EXCEPT ![k] = c]
    ELSE LET numbers == c.batches[Len(c.batches)].events
             batch == [i \in 1..Len(numbers) |-> w.payloads[k][numbers[i]]]
         IN  send([w EXCEPT ![k] = emitReturns(c, Len(c.batches))],
                  IF k = "github" THEN githubBatch(batch) ELSE judgeUpdate(batch))

\* emitGitHubBatch(payload), emitJudgeUpdate(payload)
emit(w, k, payload) ==
    Coalesced([w EXCEPT !.payloads[k] = Append(@, payload)], k, emitEvent(w[k]))

\* await flushGitHubBatch(), await flushJudgeUpdate()
flushed(w, k) == Coalesced(w, k, flush(w[k]))

\* one call of options.callbacks as ws.ts defines them
Callback(w, c) ==
    IF c.callback = "onAttemptStart"
    THEN send(w, [type |-> "attempt_started", attempt_id |-> c.attemptId,
                  result_group |-> c.resultGroup, search_query |-> c.query])
    ELSE IF c.callback = "onGitHubBatch"
    THEN emit(w, "github", [attemptId |-> c.attemptId, count |-> Len(c.repos), repos |-> c.repos])
    ELSE IF c.callback = "onJudgeUpdate"
    THEN emit(w, "judge", [attemptId |-> c.attemptId, findings |-> c.overallFindings,
                           recommendations |-> c.recommendations])
    ELSE IF c.callback = "onRefinedSearch"
    THEN send(w, [type |-> "refined_search", previous_query |-> c.previousQuery,
                  new_query |-> c.newQuery])
    ELSE send(flushed(flushed(w, "github"), "judge"),
              [type |-> "finalized", attempt_id |-> c.summary.attemptId,
               result_group |-> c.summary.resultGroup, total |-> c.summary.totalRepos])

RECURSIVE Callbacks(_, _)
Callbacks(w, calls) ==
    IF calls = <<>> THEN w ELSE Callbacks(Callback(w, Head(calls)), Tail(calls))

(***************************************************************************)
(* The lifecycle (search.ts).                                              *)
(***************************************************************************)
\* no coalescer has been created, no pure function is being called
NoCoalescer == [maxBatch |-> 0]
NoCall == [fn |-> "none"]

EmptyRound ==
    [query |-> "", items |-> <<>>, resultGroup |-> 0, attempt |-> None,
     filtered |-> <<>>, judge |-> None, existing |-> None]

Idle(p) == pc[p] \in {"idle", "done", "error"}

\* class RateLimiter: the static members
milliseconds_per_request == 1
milliseconds_for_updates == 5000
RateLimiterCapacity == 10000

\* the calls a RateLimiter can have in flight: consume() twice and the alarm handler
Slots == {"c1", "c2", "alarm"}

\* a call that is not running; result is what its last run returned
IdleCall == [pc |-> "idle", stored |-> None, nextAlarm |-> None, wakeups |-> 0, result |-> None]

\* The durable object before its first call: this.tokens undefined, nothing in storage,
\* no alarm.  An alarm is kept as the milliseconds left until its time.  The last four
\* fields are the environment's account of the calls: consumed counts the consume()
\* calls that returned before any alarm ran (None from the first alarm on, and no
\* further than capacity + 2), wakeups the alarms that ran since the last consume()
\* was called, started the consume() calls where a run bounds them, ideal the count
\* with every decrement and every refill applied to it in the order they were made.
\* Then the Map of buckets as the module creates it and no request at any entry point.
FreshLimiter ==
    [tokens |-> None, stored |-> None, alarm |-> None, calls |-> [s \in Slots |-> IdleCall],
     consumed |-> Some(0), wakeups |-> 0, started |-> 0, ideal |-> RateLimiterCapacity]
NoBuckets == [ip \in Clients |-> None]
NoTrigger == [p \in Procs |-> None]

NoRequests ==
    /\ limiter = FreshLimiter
    /\ buckets = NoBuckets
    /\ clock = 0
    /\ trigger = NoTrigger
    /\ ws = NoSocket

LifecycleInit ==
    /\ search_attempts = <<>>
    /\ repos = {}
    /\ search_results = {}
    /\ judge_reviews = <<>>
    /\ pc = [p \in Procs |-> "idle"]
    /\ options = [p \in Procs |-> [sessionId |-> "s1", query |-> InitialQuery, retryPolicy |-> None,
                                    baseKeywords |-> FALSE, searchWithinSessions |-> <<>>]]
    /\ searchWithin = [p \in Procs |-> <<>>]
    /\ currentQuery = [p \in Procs |-> InitialQuery]
    /\ attemptIndex = [p \in Procs |-> 0]
    /\ attempts = [p \in Procs |-> <<>>]
    /\ round = [p \in Procs |-> EmptyRound]
    /\ log = [p \in Procs |-> <<>>]
    /\ events = [p \in Procs |-> <<>>]
    /\ outcome = [p \in Procs |-> "pending"]

Init ==
    /\ LifecycleInit
    /\ coalescer = NoCoalescer
    /\ call = NoCall
    /\ NoRequests

\* the environment's record of a request of the current round of invocation p and of
\* the reply it gave
Logged(p, service, request, reply) ==
    log' = [log EXCEPT ![p] = Append(@, [service |-> service, round |-> attemptIndex[p],
                                         request |-> request, reply |-> reply])]

\* options.callbacks is called: the environment's record of the calls, and what the
\* callbacks of the socket do where the lifecycle was started from one
Reported(p, calls) ==
    /\ events' = [events EXCEPT ![p] = @ \o calls]
    /\ ws' = IF ws.open THEN Callbacks(ws, calls) ELSE ws

\* the failed round is run again
Throw_rerun(p) ==
    /\ pc' = [pc EXCEPT ![p] = "runGitHubSearch"]
    /\ outcome' = outcome

\* an exception leaves executeSingleSearch and runSearchLifecycle: the promise rejects
Throw(p) ==
    /\ pc' = [pc EXCEPT ![p] = "error"]
    /\ outcome' = [outcome EXCEPT ![p] = "error"]

\* the for loop's test, then either the next round or return { attempts }
LoopTest(p, index, opts) ==
    IF index < LoopLimit(RetryPolicyOf(opts))
    THEN /\ pc' = [pc EXCEPT ![p] = "runGitHubSearch"]
         /\ outcome' = outcome
    ELSE /\ pc' = [pc EXCEPT ![p] = "done"]
         /\ outcome' = [outcome EXCEPT ![p] = "returned"]

\* a caller enters runSearchLifecycle: the options' defaults, gatherSearchWithin and
\* the first test of the loop
RunSearchLifecycle(p, env) ==
    /\ pc[p] = "idle"
    /\ p \in env.callers
    /\ env.serialized => \A q \in Procs : Idle(q)
    /\ \E s \in env.sessions, rp \in env.policies, bk \in env.baseKeywords, sw \in env.within :
          LET opts == [sessionId |-> s, query |-> InitialQuery, retryPolicy |-> rp,
                       baseKeywords |-> bk, searchWithinSessions |-> sw]
          IN  /\ options' = [options EXCEPT ![p] = opts]
              /\ searchWithin' = [searchWithin EXCEPT ![p] = getRepoIdsForSessions(sw)]
              /\ currentQuery' = [currentQuery EXCEPT ![p] = opts.query]
              /\ LoopTest(p, 0, opts)
    /\ UNCHANGED <<others, store, attemptIndex, attempts, round, log, events, ws>>

\* await runGitHubSearch(...): one search call per expanded query
RunGitHubSearch(p, env) ==
    /\ pc[p] = "runGitHubSearch"
    /\ \E reply \in env.search :
          /\ reply.ok => Len(reply.items) = QueryCount(options[p].baseKeywords)
          /\ Logged(p, "search", currentQuery[p], reply)
          /\ IF reply.ok
             THEN /\ round' = [round EXCEPT ![p] =
                                  [EmptyRound EXCEPT
                                      !.query = currentQuery[p],
                                      !.items = flatMap(runGitHubSearch(reply.items, searchWithin[p]))]]
                  /\ pc' = [pc EXCEPT ![p] = "nextResultGroup"]
                  /\ outcome' = outcome
             ELSE /\ Throw(p)
                  /\ round' = [round EXCEPT ![p] = [EmptyRound EXCEPT !.query = currentQuery[p]]]
    /\ UNCHANGED <<others, store, options, searchWithin, currentQuery, attemptIndex, attempts, events, ws>>

\* await db.nextResultGroup(sessionId)
NextResultGroup(p) ==
    /\ pc[p] = "nextResultGroup"
    /\ round' = [round EXCEPT ![p].resultGroup = nextResultGroup(options[p].sessionId)]
    /\ pc' = [pc EXCEPT ![p] = "insertAttempt"]
    /\ UNCHANGED <<others, store, options, searchWithin, currentQuery, attemptIndex, attempts, log, events, ws, outcome>>

\* db.createSearchAttempt, the INSERT
InsertAttempt(p) ==
    /\ pc[p] = "insertAttempt"
    /\ search_attempts' = InsertAttemptRow(options[p].sessionId, round[p].resultGroup)
    /\ pc' = [pc EXCEPT ![p] = "selectAttempt"]
    /\ UNCHANGED <<others, repos, search_results, judge_reviews, options, searchWithin, currentQuery,
                   attemptIndex, attempts, round, log, events, ws, outcome>>

\* db.createSearchAttempt, the SELECT of the session's latest row, and onAttemptStart
SelectAttempt(p) ==
    /\ pc[p] = "selectAttempt"
    /\ LET attempt == LatestAttemptRow(options[p].sessionId)
       IN  /\ round' = [round EXCEPT ![p].attempt = Some(attempt)]
           /\ Reported(p, <<[callback |-> "onAttemptStart", resultGroup |-> round[p].resultGroup,
                             query |-> round[p].query, attemptId |-> attempt.id]>>)
    /\ pc' = [pc EXCEPT ![p] = "fetchReadme"]
    /\ UNCHANGED <<others, store, options, searchWithin, currentQuery, attemptIndex, attempts, log, outcome>>

\* db.getRepoEtags, then Promise.all of fetchReadme and of the cached-content lookup.
\* With an item of the 'session-bias' response among the repos, getRepoEtags binds
\* undefined to its statement: the database either rejects that (the call throws) or
\* takes it for NULL.
FetchReadmes(p) ==
    /\ pc[p] = "fetchReadme"
    /\ LET items == round[p].items
           etag(i) == getRepoEtag(FullName(items[i]))
           bindsUndefined == \E i \in 1..Len(items) : items[i] = Undefined
       IN  \E d1 \in (IF bindsUndefined THEN D1Undefined ELSE {"null"}) :
              IF d1 = "rejects"
              THEN /\ Throw(p)
                   /\ UNCHANGED <<round, log, events, ws>>
              ELSE \E replies \in [1..Len(items) -> ReadmeReplies(None) \cup {"not_modified"}] :
                   /\ \A i \in 1..Len(items) : replies[i] \in ReadmeReplies(etag(i))
                   /\ Logged(p, "readme", items, replies)
                   /\ LET readme(i) == fetchReadme(replies[i], etag(i))
                          entry(i) == withReadme(items[i], readme(i))
                          threw == \E i \in 1..Len(items) : readme(i) = None \/ entry(i) = None
                      IN  IF threw
                          THEN /\ Throw(p)
                               /\ UNCHANGED <<round, events, ws>>
                          ELSE LET filteredRepos ==
                                       SelectSeq([i \in 1..Len(items) |-> Get(entry(i))],
                                                 LAMBDA e : e.readme # None)
                               IN  /\ round' = [round EXCEPT ![p].filtered = filteredRepos]
                                   /\ Reported(p, <<[callback |-> "onGitHubBatch",
                                                     attemptId |-> Get(round[p].attempt).id,
                                                     repos |-> [i \in 1..Len(filteredRepos) |->
                                                                   filteredRepos[i].full_name]]>>)
                               /\ pc' = [pc EXCEPT ![p] = "insertRepos"]
                               /\ outcome' = outcome
    /\ UNCHANGED <<others, store, options, searchWithin, currentQuery, attemptIndex, attempts>>

\* await db.insertRepos(filteredRepos.map(mapRepoToRow)): one statement per row and no
\* transaction.  A row whose id and full_name are undefined stops it with an
\* exception (undefined is rejected, or it is NULL in full_name TEXT NOT NULL); the
\* rows before it are written.
InsertRepos(p) ==
    /\ pc[p] = "insertRepos"
    /\ LET rows == [i \in 1..Len(round[p].filtered) |-> mapRepoToRow(round[p].filtered[i])]
           bad == {i \in 1..Len(rows) : rows[i].id = Undefined}
           written == IF bad = {} THEN rows
                      ELSE SubSeq(rows, 1, (CHOOSE i \in bad : \A j \in bad : i <= j) - 1)
           after == insertRepos(written, repos, search_results)
       IN  /\ repos' = after.repos
           /\ search_results' = after.search_results
           /\ IF bad = {}
              THEN /\ pc' = [pc EXCEPT ![p] = "insertSearchResults"]
                   /\ outcome' = outcome
              ELSE Throw(p)
    /\ UNCHANGED <<others, search_attempts, judge_reviews, options, searchWithin, currentQuery,
                   attemptIndex, attempts, round, log, events, ws>>

\* await db.insertSearchResults(...): one row per filtered repo, score and note null
InsertSearchResults(p) ==
    /\ pc[p] = "insertSearchResults"
    /\ LET rows == [i \in 1..Len(round[p].filtered) |->
                       [session_id |-> options[p].sessionId,
                        search_attempt_id |-> Get(round[p].attempt).id,
                        repo_id |-> round[p].filtered[i].node_id,
                        readme_content |-> round[p].filtered[i].readme,
                        judge_finding |-> None,
                        judge_relevance_score |-> None]]
       IN  search_results' = insertSearchResults(rows, search_results)
    /\ pc' = [pc EXCEPT ![p] = "runJudge"]
    /\ UNCHANGED <<others, search_attempts, repos, judge_reviews, options, searchWithin, currentQuery,
                   attemptIndex, attempts, round, log, events, ws, outcome>>

\* await runJudge(ctx, judgePayload)
RunJudge(p, env) ==
    /\ pc[p] = "runJudge"
    /\ \E reply \in env.judge :
          /\ Logged(p, "judge", judgePayload(round[p].filtered), reply)
          /\ IF runJudge(reply) = None
             THEN /\ Throw(p)
                  /\ UNCHANGED <<round, events, ws>>
             ELSE /\ round' = [round EXCEPT ![p].judge = runJudge(reply)]
                  /\ Reported(p, <<[callback |-> "onJudgeUpdate",
                                    attemptId |-> Get(round[p].attempt).id,
                                    overallFindings |-> Get(runJudge(reply)).overall_findings,
                                    recommendations |-> Get(runJudge(reply)).recommendations]>>)
                  /\ pc' = [pc EXCEPT ![p] = "upsertJudgeReview"]
                  /\ outcome' = outcome
    /\ UNCHANGED <<others, store, options, searchWithin, currentQuery, attemptIndex, attempts>>

\* db.upsertJudgeReview, the SELECT of an existing review of the attempt
SelectJudgeReview(p) ==
    /\ pc[p] = "upsertJudgeReview"
    /\ round' = [round EXCEPT ![p].existing = ExistingReview(Get(round[p].attempt).id)]
    /\ pc' = [pc EXCEPT ![p] = "writeJudgeReview"]
    /\ UNCHANGED <<others, store, options, searchWithin, currentQuery, attemptIndex, attempts, log, events, ws, outcome>>

\* db.upsertJudgeReview, the UPDATE of the row found or the INSERT of a new one
WriteJudgeReview(p) ==
    /\ pc[p] = "writeJudgeReview"
    /\ LET judge == Get(round[p].judge)
           row == [session_id |-> options[p].sessionId,
                   search_attempt_id |-> Get(round[p].attempt).id,
                   overall_judge_findings |-> judge.overall_findings,
                   judge_recommendations |-> judge.recommendations]
       IN  judge_reviews' = writeJudgeReview(round[p].existing, row)
    /\ pc' = [pc EXCEPT ![p] = "updateResultScores"]
    /\ UNCHANGED <<others, search_attempts, repos, search_results, options, searchWithin, currentQuery,
                   attemptIndex, attempts, round, log, events, ws, outcome>>

\* await db.updateResultScores(attempt.id, judgeScores)
UpdateResultScores(p) ==
    /\ pc[p] = "updateResultScores"
    /\ search_results' = updateResultScores(Get(round[p].attempt).id,
                                            judgeScores(Get(round[p].judge).per_repo, round[p].items),
                                            search_results)
    /\ pc' = [pc EXCEPT ![p] = "attemptComplete"]
    /\ UNCHANGED <<others, search_attempts, repos, judge_reviews, options, searchWithin, currentQuery,
                   attemptIndex, attempts, round, log, events, ws, outcome>>

\* what executeSingleSearch returns
Summary(p) ==
    [attemptId |-> Get(round[p].attempt).id,
     resultGroup |-> Get(round[p].attempt).result_group,
     query |-> round[p].query,
     judgeFindings |-> Get(round[p].judge).overall_findings,
     recommendations |-> Get(round[p].judge).recommendations,
     stats |-> computeStatistics(Get(round[p].judge).per_repo),
     totalRepos |-> Len(round[p].items)]

\* the decision of the loop body after a round: TRUE when it breaks
Breaks(summary, retryPolicy) ==
    \/ Converged(summary.stats, retryPolicy)
    \/ Len(summary.recommendations) = 0

\* executeSingleSearch returns; attempts.push(summary), onAttemptComplete, the two
\* breaks, the refinement with onRefinedSearch, attemptIndex++ and the loop test
AttemptComplete(p) ==
    /\ pc[p] = "attemptComplete"
    /\ LET summary == Summary(p)
       IN  /\ attempts' = [attempts EXCEPT ![p] = Append(@, summary)]
           /\ round' = [round EXCEPT ![p] = EmptyRound]
           /\ IF Breaks(summary, RetryPolicyOf(options[p]))
              THEN /\ pc' = [pc EXCEPT ![p] = "done"]
                   /\ outcome' = [outcome EXCEPT ![p] = "returned"]
                   /\ Reported(p, <<[callback |-> "onAttemptComplete", summary |-> summary]>>)
                   /\ UNCHANGED <<currentQuery, attemptIndex>>
              ELSE /\ currentQuery' = [currentQuery EXCEPT ![p] = summary.recommendations[1]]
                   /\ Reported(p, <<[callback |-> "onAttemptComplete", summary |-> summary],
                                    [callback |-> "onRefinedSearch",
                                     previousQuery |-> currentQuery[p],
                                     newQuery |-> summary.recommendations[1]]>>)
                   /\ attemptIndex' = [attemptIndex EXCEPT ![p] = @ + 1]
                   /\ LoopTest(p, attemptIndex[p] + 1, options[p])
    /\ UNCHANGED <<others, store, options, searchWithin, log>>

\* one step of invocation p in an environment: who calls, and what the services answer
Step(p, env) ==
    \/ RunSearchLifecycle(p, env)
    \/ RunGitHubSearch(p, env)
    \/ NextResultGroup(p)
    \/ InsertAttempt(p)
    \/ SelectAttempt(p)
    \/ FetchReadmes(p)
    \/ InsertRepos(p)
    \/ InsertSearchResults(p)
    \/ RunJudge(p, env)
    \/ SelectJudgeReview(p)
    \/ WriteJudgeReview(p)
    \/ UpdateResultScores(p)
    \/ AttemptComplete(p)

\* One invocation, every retry policy, every reply of the judge.
LifecycleEnv ==
    [callers |-> {"inv1"}, serialized |-> TRUE, sessions |-> {"s1"},
     baseKeywords |-> BOOLEAN, within |-> {<<>>},
     policies |-> RetryPolicies, search |-> SearchReplies, judge |-> JudgeReplies]

Next == \E p \in Procs : Step(p, LifecycleEnv)

Spec == Init /\ [][Next]_vars

\* Invocations one after the other, on two sessions.
SequentialEnv ==
    [callers |-> Procs, serialized |-> TRUE, sessions |-> Sessions,
     baseKeywords |-> {FALSE}, within |-> {<<>>},
     policies |-> {None, Some([max_attempts |-> Some(2), min_score |-> None])},
     search |-> {[ok |-> FALSE, items |-> <<>>], [ok |-> TRUE, items |-> <<<<"n1">>>>],
                 [ok |-> TRUE, items |-> <<<<"n1", "n2">>>>]},
     judge |-> {[kind |-> "http_error", body |-> None],
                [kind |-> "content",
                 body |-> Some([overall_findings |-> 10, recommendations |-> <<"qA">>,
                                per_repo |-> <<[full_name |-> "o/r1", score |-> 40, note |-> 5]>>])],
                [kind |-> "content",
                 body |-> Some([overall_findings |-> 10, recommendations |-> <<"qA">>,
                                per_repo |-> <<[full_name |-> "o/r2", score |-> 80, note |-> 5]>>])]}]

SequentialNext == \E p \in Procs : Step(p, SequentialEnv)

SequentialSpec == Init /\ [][SequentialNext]_vars

\* Two invocations on one session, interleaved at their awaits.
RaceEnv ==
    [callers |-> Procs, serialized |-> FALSE, sessions |-> {"s1"},
     baseKeywords |-> {FALSE}, within |-> {<<>>},
     policies |-> {Some([max_attempts |-> Some(1), min_score |-> None])},
     search |-> {[ok |-> TRUE, items |-> <<<<"n1">>>>]},
     judge |-> {[kind |-> "content",
                 body |-> Some([overall_findings |-> 10, recommendations |-> <<"qA">>,
                                per_repo |-> <<[full_name |-> "o/r1", score |-> 80, note |-> 5]>>])]}]

RaceNext == \E p \in Procs : Step(p, RaceEnv)

RaceSpec == Init /\ [][RaceNext]_vars

\* Two invocations one after the other, the later one given the session of the
\* earlier one to search within.
WithinEnv ==
    [callers |-> Procs, serialized |-> TRUE, sessions |-> Sessions,
     baseKeywords |-> {FALSE}, within |-> {<<>>, <<"s1">>},
     policies |-> {Some([max_attempts |-> Some(1), min_score |-> None])},
     search |-> {[ok |-> TRUE, items |-> <<<<"n1">>>>], [ok |-> TRUE, items |-> <<<<"n1", "n2">>>>]},
     judge |-> {[kind |-> "content",
                 body |-> Some([overall_findings |-> 10, recommendations |-> <<"qA">>,
                                per_repo |-> <<[full_name |-> "o/r1", score |-> 80, note |-> 5]>>])]}]

WithinNext == \E p \in Procs : Step(p, WithinEnv)

WithinSpec == Init /\ [][WithinNext]_vars

\* Two start_search messages on the socket of one session: the message handler is
\* async, so the two lifecycles interleave at their awaits and share the coalescers.
WsInit ==
    /\ LifecycleInit
    /\ coalescer = NoCoalescer
    /\ call = NoCall
    /\ limiter = FreshLimiter
    /\ buckets = NoBuckets
    /\ clock = 0
    /\ trigger = NoTrigger
    /\ ws = Socket

WsEnv ==
    [callers |-> Procs, serialized |-> FALSE, sessions |-> {"s1"},
     baseKeywords |-> BOOLEAN, within |-> {<<>>},
     policies |-> {Some([max_attempts |-> Some(1), min_score |-> None])},
     search |-> {[ok |-> TRUE, items |-> <<<<"n1", "n2">>>>],
                 [ok |-> TRUE, items |-> <<<<"n2">>, <<"n2">>, <<>>>>]},
     judge |-> {[kind |-> "content",
                 body |-> Some([overall_findings |-> 10, recommendations |-> <<"qA">>,
                                per_repo |-> <<[full_name |-> "o/r1", score |-> 80, note |-> 5]>>])]}]

\* the callback of a coalescer's setTimeout runs
WsTimerFires ==
    /\ ws.open
    /\ \E k \in {"github", "judge"} :
          \E t \in ws[k].timers :
              ws' = Coalesced(ws, k, performFlush([ws[k] EXCEPT !.timers = @ \ {t}], "timer"))
    /\ UNCHANGED exceptSocket

WsNext ==
    \/ \E p \in Procs : Step(p, WsEnv)
    \/ WsTimerFires

WsSpec == WsInit /\ [][WsNext]_vars

(***************************************************************************)
(* Calls of the pure functions on arguments drawn from bounded sets.       *)
(***************************************************************************)
MaxRows == 2

Triples == [session_id : {"s1"}, search_attempt_id : {1, 2}, repo_id : NodeIds]

\* a search_results row of a triple: as inserted by a round (scored = FALSE, the
\* README of the round) or as left by an earlier round that was judged
ResultRow(t, scored, content) ==
    [session_id |-> t.session_id, search_attempt_id |-> t.search_attempt_id,
     repo_id |-> t.repo_id, readme_content |-> Some(content),
     judge_finding |-> IF scored THEN Some(5) ELSE None,
     judge_relevance_score |-> IF scored THEN Some(50) ELSE None]

\* the tables UNIQUE (session_id, search_attempt_id, repo_id) allows
ResultTables ==
    { {ResultRow(t, f[t] = "scored", 100) : t \in {u \in Triples : f[u] # "absent"}} :
        f \in [Triples -> {"absent", "unscored", "scored"}] }

RowLists ==
    UNION { [1..n -> {ResultRow(t, FALSE, ReadmeLength) : t \in Triples}] : n \in 1..MaxRows }

InsertSearchResultsCalls ==
    [fn : {"insertSearchResults"}, input : [rows : RowLists, table : ResultTables], output : {None}]

Calling(fn) == call.fn = fn /\ call.output = None

Called(fn) == call.fn = fn /\ call.output # None

CallInsertSearchResults ==
    /\ Calling("insertSearchResults")
    /\ call' = [call EXCEPT !.output = Some(insertSearchResults(call.input.rows, call.input.table))]
    /\ UNCHANGED exceptCall

\* the candidate lists of 0..MaxCandidates repos, named by their place in the list,
\* with READMEs of lengths around the cap of the excerpt
MaxCandidates == 22

ReadmeLengths == <<0, 1, ExcerptCap - 1, ExcerptCap, ExcerptCap + 1, ReadmeLength>>

CandidateLists ==
    { [i \in 1..n |-> [node_id |-> i, full_name |-> i, etag |-> None,
                       readme |-> Some(ReadmeLengths[((i + k) % Len(ReadmeLengths)) + 1])]] :
        n \in 0..MaxCandidates, k \in 1..Len(ReadmeLengths) }

JudgePayloadCalls == [fn : {"judgePayload"}, input : CandidateLists, output : {None}]

CallJudgePayload ==
    /\ Calling("judgePayload")
    /\ call' = [call EXCEPT !.output = Some(judgePayload(call.input))]
    /\ UNCHANGED exceptCall

\* the per_repo lists of 1..MaxScores scores
MaxScores == 6

ScoreValues == {20, 40, 50, 60, 80, 90}

ScoreLists ==
    UNION { [1..n -> [full_name : {"o/r1"}, score : ScoreValues, note : {0}]] : n \in 1..MaxScores }

ComputeStatisticsCalls == [fn : {"computeStatistics"}, input : ScoreLists, output : {None}]

CallComputeStatistics ==
    /\ Calling("computeStatistics")
    /\ call' = [call EXCEPT !.output = Some(computeStatistics(call.input))]
    /\ UNCHANGED exceptCall

\* buildSearchQueries (github.ts).  A string is the sequence of its characters; the
\* fixed text of a template is one element of such a sequence.
MaxQueryLength == 3

Quote == "\""

Whitespace == {" ", "\t"}

Characters == {Quote, "a", "b"} \cup Whitespace

Strings == UNION { [1..n -> Characters] : n \in 0..MaxQueryLength }

\* naturalLanguage.replace(/"/g, ' ')
replaceQuotes(s) == [i \in 1..Len(s) |-> IF s[i] = Quote THEN " " ELSE s[i]]

\* s without the whitespace it starts with
RECURSIVE SkipWhitespace(_)
SkipWhitespace(s) ==
    IF s # <<>> /\ Head(s) \in Whitespace THEN SkipWhitespace(Tail(s)) ELSE s

\* String.prototype.split(/\s+/): the pieces between the runs of whitespace, the empty
\* pieces before a leading and after a trailing run included; piece is the one being read
RECURSIVE split(_, _)
split(s, piece) ==
    IF s = <<>> THEN <<piece>>
    ELSE IF Head(s) \in Whitespace THEN <<piece>> \o split(SkipWhitespace(s), <<>>)
    ELSE split(Tail(s), Append(piece, Head(s)))

\* String.prototype.trim
RECURSIVE trim(_)
trim(t) ==
    IF t = <<>> THEN t
    ELSE IF Head(t) \in Whitespace THEN trim(Tail(t))
    ELSE IF t[Len(t)] \in Whitespace THEN trim(SubSeq(t, 1, Len(t) - 1))
    ELSE t

\* Array.prototype.join(' ')
RECURSIVE join(_)
join(ts) ==
    IF ts = <<>> THEN <<>>
    ELSE IF Len(ts) = 1 THEN ts[1]
    ELSE ts[1] \o <<" ">> \o join(Tail(ts))

WORKER_KEYWORD_TEMPLATE(query) == <<"\"Cloudflare Workers\" AND ">> \o query

LANGUAGE_TOPIC_TEMPLATE(query) ==
    <<"(topic:cloudflare-workers OR in:readme \"cloudflare workers\") AND (language:TypeScript OR language:JavaScript) AND ">>
        \o query

FRAMEWORK_TEMPLATE(query) == <<"(hono OR \"itty-router\") AND (in:readme cloudflare) AND ">> \o query

buildSearchQueries(naturalLanguage, baseKeywords) ==
    LET sanitized == replaceQuotes(naturalLanguage)
        pieces == split(sanitized, <<>>)
        tokens == SelectSeq([i \in 1..Len(pieces) |-> trim(pieces[i])], LAMBDA t : t # <<>>)
        additional == IF Len(tokens) # 0 THEN join(tokens) ELSE naturalLanguage
    IN  IF ~baseKeywords THEN <<additional>>
        ELSE <<WORKER_KEYWORD_TEMPLATE(additional),
               LANGUAGE_TOPIC_TEMPLATE(additional),
               FRAMEWORK_TEMPLATE(additional)>>

BuildSearchQueriesCalls ==
    [fn : {"buildSearchQueries"}, input : [naturalLanguage : Strings, baseKeywords : BOOLEAN],
     output : {None}]

CallBuildSearchQueries ==
    /\ Calling("buildSearchQueries")
    /\ call' = [call EXCEPT !.output = Some(buildSearchQueries(call.input.naturalLanguage,
                                                                call.input.baseKeywords))]
    /\ UNCHANGED exceptCall

PureInit ==
    /\ LifecycleInit
    /\ coalescer = NoCoalescer
    /\ NoRequests
    /\ \/ call \in InsertSearchResultsCalls
       \/ call \in JudgePayloadCalls
       \/ call \in ComputeStatisticsCalls
       \/ call \in BuildSearchQueriesCalls

PureNext ==
    \/ CallInsertSearchResults
    \/ CallJudgePayload
    \/ CallComputeStatistics
    \/ CallBuildSearchQueries

PureSpec == PureInit /\ [][PureNext]_vars

\* One invocation on a store that holds the repo o/r1 with a validation token and a
\* README, as written by the runGitHubSearch that records the etag of the provider's
\* response (github.ts 283-303 and 346-347).
StoredEtag == "etag-0"

CachedInit ==
    /\ search_attempts = <<[id |-> 1, session_id |-> "s2", result_group |-> 1]>>
    /\ repos = {[id |-> "n1", full_name |-> "o/r1", etag |-> Some(StoredEtag)]}
    /\ search_results =
          {ResultRow([session_id |-> "s2", search_attempt_id |-> 1, repo_id |-> "n1"], FALSE, 100)}
    /\ judge_reviews = <<>>
    /\ pc = [p \in Procs |-> "idle"]
    /\ options = [p \in Procs |-> [sessionId |-> "s1", query |-> InitialQuery, retryPolicy |-> None,
                                    baseKeywords |-> FALSE, searchWithinSessions |-> <<>>]]
    /\ searchWithin = [p \in Procs |-> <<>>]
    /\ currentQuery = [p \in Procs |-> InitialQuery]
    /\ attemptIndex = [p \in Procs |-> 0]
    /\ attempts = [p \in Procs |-> <<>>]
    /\ round = [p \in Procs |-> EmptyRound]
    /\ log = [p \in Procs |-> <<>>]
    /\ events = [p \in Procs |-> <<>>]
    /\ outcome = [p \in Procs |-> "pending"]
    /\ coalescer = NoCoalescer
    /\ call = NoCall
    /\ NoRequests

CachedEnv ==
    [callers |-> {"inv1"}, serialized |-> TRUE, sessions |-> {"s1"},
     baseKeywords |-> {FALSE}, within |-> {<<>>},
     policies |-> {None},
     search |-> {[ok |-> TRUE, items |-> <<<<"n1">>>>], [ok |-> TRUE, items |-> <<<<"n1", "n2">>>>]},
     judge |-> {[kind |-> "http_error", body |-> None],
                [kind |-> "content",
                 body |-> Some([overall_findings |-> 10, recommendations |-> <<"qA">>,
                                per_repo |-> <<[full_name |-> "o/r1", score |-> 40, note |-> 5]>>])]}]

CachedNext == \E p \in Procs : Step(p, CachedEnv)

CachedSpec == CachedInit /\ [][CachedNext]_vars

(***************************************************************************)
(* coalesceEvents (util.ts): the calls of emit and flush, the timer and the  *)
(* end of the emit callback, as steps.                                     *)
(***************************************************************************)
\* a caller emits the next event
EmitEvent ==
    /\ coalescer.maxBatch > 0
    /\ coalescer.emitted < MaxEvents
    /\ coalescer' = emitEvent(coalescer)
    /\ UNCHANGED exceptCoalescer

\* the callback of setTimeout runs
TimerFires ==
    /\ coalescer.maxBatch > 0
    /\ \E t \in coalescer.timers :
          coalescer' = performFlush([coalescer EXCEPT !.timers = @ \ {t}], "timer")
    /\ UNCHANGED exceptCoalescer

\* flush(): the pending promise if there is one, else (the buffer is not empty) a new
\* promise and performFlush.  On an empty buffer with no pending promise flush()
\* returns Promise.resolve() and changes nothing.
Flush ==
    /\ coalescer.maxBatch > 0
    /\ coalescer.buffer # <<>>
    /\ Len(coalescer.flushes) < MaxFlushes
    /\ coalescer' = flush(coalescer)
    /\ UNCHANGED exceptCoalescer

\* the promise of one call of the emit callback settles: its performFlush goes on after
\* the await and resolves the pending promise of flush(), whoever created it
EmitReturns ==
    /\ coalescer.maxBatch > 0
    /\ \E i \in coalescer.inflight : coalescer' = emitReturns(coalescer, i)
    /\ UNCHANGED exceptCoalescer

\* one call of the emit callback throws or its promise rejects: `await emit(batch)`
\* throws in performFlush, which ends there, rejected
EmitFails ==
    /\ coalescer.maxBatch > 0
    /\ \E i \in coalescer.inflight :
          coalescer' = [coalescer EXCEPT !.inflight = @ \ {i}]
    /\ UNCHANGED exceptCoalescer

CoalescerInit ==
    /\ LifecycleInit
    /\ coalescer \in Coalescers
    /\ call = NoCall
    /\ NoRequests

CoalescerNext ==
    \/ EmitEvent
    \/ TimerFires
    \/ Flush
    \/ EmitReturns
    \/ EmitFails

CoalescerSpec == CoalescerInit /\ [][CoalescerNext]_vars

\* the runtime runs every timer that is due, and every call of the emit callback ends,
\* by returning or by failing
CoalescerFairSpec ==
    /\ CoalescerInit
    /\ [][CoalescerNext]_vars
    /\ WF_vars(TimerFires)
    /\ WF_vars(EmitReturns \/ EmitFails)

(***************************************************************************)
(* class RateLimiter (scaffolder.ts), one durable object.  Every await of  *)
(* consume() and alarm() is on a storage operation: the operation takes     *)
(* effect where it is issued and the call goes on in a later step.  env     *)
(* says which slots call consume(), whether a call is only delivered when  *)
(* no other is in flight, and how many consume() calls a run has (0: any   *)
(* number).                                                                *)
(***************************************************************************)
TickMs == 2500

nextAlarmTime == milliseconds_for_updates * milliseconds_per_request

\* saveState(): storage.put of this.tokens ?? capacity
saveState(l) == [l EXCEPT !.stored = Some(IF l.tokens = None THEN RateLimiterCapacity ELSE Get(l.tokens))]

\* what consume() returns, with the return statement it left by
ConsumeResult(l, s, wait, tokenTaken) ==
    [millisecondsToNextRequest |-> wait,
     remaining |-> MathMax(0, IF l.tokens = None THEN 0 ELSE Get(l.tokens)),
     tokenTaken |-> tokenTaken,
     wakeups |-> l.calls[s].wakeups]

\* consume() returns in slot s
Return(l, s, wait, tokenTaken) ==
    [l EXCEPT !.calls[s] = [IdleCall EXCEPT !.result = Some(ConsumeResult(l, s, wait, tokenTaken))],
              !.consumed = IF @ = None THEN None
                           ELSE Some(Min(Get(@) + 1, RateLimiterCapacity + 2))]

\* the alarm handler returns
AlarmReturns(l) ==
    [l EXCEPT !.calls["alarm"] = IdleCall, !.wakeups = Min(@ + 1, 3)]

\* consume() after checkAndSetAlarm: a token is taken and the state saved, or the
\* wait until nextAlarm is returned
takeToken(l, s) ==
    IF (IF l.tokens = None THEN 0 ELSE Get(l.tokens)) > 0
    THEN LET taken == [l EXCEPT !.tokens = Some(MathMax(0, Get(l.tokens) - 1)),
                                !.ideal = MathMax(0, @ - 1),
                                !.calls[s].pc = "saveState"]
         IN  saveState(taken)
    ELSE Return(l, s, MathMax(0, Get(l.calls[s].nextAlarm)), FALSE)

\* checkAndSetAlarm() up to its first await: storage.getAlarm() is issued
checkAndSetAlarm(l, s) ==
    [l EXCEPT !.calls[s].pc = "getAlarm", !.calls[s].nextAlarm = l.alarm]

\* alarm() after initialize: the refill and its saveState, or straight to the test
\* that reschedules
refill_double(l) ==
    IF Get(l.tokens) < RateLimiterCapacity
    THEN saveState([l EXCEPT !.tokens = Some(Min(RateLimiterCapacity,
                                                 Get(l.tokens) + 2 * milliseconds_for_updates)),
                             !.ideal = Min(RateLimiterCapacity, @ + 2 * milliseconds_for_updates),
                             !.calls["alarm"].pc = "saveState"])
    ELSE AlarmReturns(l)

refill(l) ==
    IF Get(l.tokens) < RateLimiterCapacity
    THEN saveState([l EXCEPT !.tokens = Some(Min(RateLimiterCapacity,
                                                 Get(l.tokens) + milliseconds_for_updates)),
                             !.ideal = Min(RateLimiterCapacity, @ + milliseconds_for_updates),
                             !.calls["alarm"].pc = "saveState"])
    ELSE AlarmReturns(l)

\* what follows `await this.initialize()` in the call of slot s
Initialized(l, s) == IF s = "alarm" THEN refill(l) ELSE checkAndSetAlarm(l, s)

\* initialize() up to its first await: nothing to do when this.tokens is set, else
\* storage.get is issued
initialize(l, s) ==
    IF l.tokens # None THEN Initialized(l, s)
    ELSE [l EXCEPT !.calls[s].pc = "get", !.calls[s].stored = l.stored]

NoCallInFlight(l) == \A s \in Slots : l.calls[s].pc = "idle"

\* a client's checkRateLimit calls stub.consume()
Consume(s, env) ==
    /\ s \in env.callers
    /\ limiter.calls[s].pc = "idle"
    /\ env.serialized => NoCallInFlight(limiter)
    /\ env.maxCalls = 0 \/ limiter.started < env.maxCalls
    /\ limiter' = initialize([limiter EXCEPT
                                 !.calls[s] = [IdleCall EXCEPT !.wakeups = limiter.wakeups],
                                 !.wakeups = 0,
                                 !.started = IF env.maxCalls = 0 THEN 0 ELSE @ + 1], s)
    /\ UNCHANGED exceptLimiter

\* the runtime runs the alarm whose time has come; the alarm is no longer scheduled
Alarm(env) ==
    /\ limiter.alarm = Some(0)
    /\ limiter.calls["alarm"].pc = "idle"
    /\ env.serialized => NoCallInFlight(limiter)
    /\ limiter' = initialize([limiter EXCEPT !.alarm = None, !.consumed = None], "alarm")
    /\ UNCHANGED exceptLimiter

\* initialize() after storage.get: the stored count, or capacity and saveState
InitializeLoaded(s) ==
    /\ limiter.calls[s].pc = "get"
    /\ limiter' =
          IF limiter.calls[s].stored # None
          THEN Initialized([limiter EXCEPT !.tokens = limiter.calls[s].stored], s)
          ELSE saveState([limiter EXCEPT !.tokens = Some(RateLimiterCapacity),
                                         !.calls[s].pc = "initializeSaveState"])
    /\ UNCHANGED exceptLimiter

\* initialize() after its saveState
InitializeSaved(s) ==
    /\ limiter.calls[s].pc = "initializeSaveState"
    /\ limiter' = Initialized(limiter, s)
    /\ UNCHANGED exceptLimiter

\* checkAndSetAlarm() after storage.getAlarm(): the alarm found, or setAlarm
AlarmRead(s) ==
    /\ limiter.calls[s].pc = "getAlarm"
    /\ limiter' =
          IF limiter.calls[s].nextAlarm # None THEN takeToken(limiter, s)
          ELSE [limiter EXCEPT !.alarm = Some(nextAlarmTime),
                               !.calls[s].nextAlarm = Some(nextAlarmTime),
                               !.calls[s].pc = "setAlarm"]
    /\ UNCHANGED exceptLimiter

\* checkAndSetAlarm() after storage.setAlarm()
AlarmSet(s) ==
    /\ s # "alarm"
    /\ limiter.calls[s].pc = "setAlarm"
    /\ limiter' = takeToken(limiter, s)
    /\ UNCHANGED exceptLimiter

\* consume() after its saveState: the return of zero wait
StateSaved(s) ==
    /\ s # "alarm"
    /\ limiter.calls[s].pc = "saveState"
    /\ limiter' = Return(limiter, s, 0, TRUE)
    /\ UNCHANGED exceptLimiter

\* no setAlarm in alarm()
reschedule_never(l) == AlarmReturns(l)

\* alarm() after the refill: another alarm while the count is below capacity
reschedule(l) ==
    IF (IF l.tokens = None THEN RateLimiterCapacity ELSE Get(l.tokens)) < RateLimiterCapacity
    THEN [l EXCEPT !.alarm = Some(nextAlarmTime), !.calls["alarm"].pc = "setAlarm"]
    ELSE AlarmReturns(l)

\* alarm() after its saveState
RefillSaved ==
    /\ limiter.calls["alarm"].pc = "saveState"
    /\ limiter' = reschedule(limiter)
    /\ UNCHANGED exceptLimiter

\* alarm() after storage.setAlarm()
Rescheduled ==
    /\ limiter.calls["alarm"].pc = "setAlarm"
    /\ limiter' = AlarmReturns(limiter)
    /\ UNCHANGED exceptLimiter

\* TickMs milliseconds pass: every recorded alarm time is that much nearer
TimePasses ==
    /\ limiter.alarm # None
    /\ Get(limiter.alarm) > 0
    /\ LET nearer(t) == IF t = None THEN None ELSE Some(MathMax(0, Get(t) - TickMs))
       IN  limiter' = [limiter EXCEPT
                          !.alarm = nearer(@),
                          !.calls = [s \in Slots |-> [@[s] EXCEPT !.nextAlarm = nearer(@)]]]
    /\ UNCHANGED exceptLimiter

\* the runtime drops the idle object from memory
Evict ==
    /\ NoCallInFlight(limiter)
    /\ limiter.tokens # None
    /\ limiter' = [limiter EXCEPT !.tokens = None]
    /\ UNCHANGED exceptLimiter

\* checkRateLimit: what it makes of the result of consume()
checkRateLimit(result) ==
    IF result.millisecondsToNextRequest > 0
    THEN [success |-> FALSE, limit |-> RateLimiterCapacity, remaining |-> result.remaining,
          retryAfterMs |-> Some(result.millisecondsToNextRequest)]
    ELSE [success |-> TRUE, limit |-> RateLimiterCapacity, remaining |-> result.remaining,
          retryAfterMs |-> None]

LimiterStep(s, env) ==
    \/ Consume(s, env)
    \/ InitializeLoaded(s)
    \/ InitializeSaved(s)
    \/ AlarmRead(s)
    \/ AlarmSet(s)
    \/ StateSaved(s)

\* One client after the other: a call is delivered when no other is in flight.
DurableEnv == [callers |-> {"c1"}, serialized |-> TRUE, maxCalls |-> 0]

DurableNext ==
    \/ \E s \in Slots : LimiterStep(s, DurableEnv)
    \/ Alarm(DurableEnv)
    \/ RefillSaved
    \/ Rescheduled
    \/ TimePasses
    \/ Evict

DurableSpec == Init /\ [][DurableNext]_vars

\* a storage operation that a call waits for completes and the call goes on
StorageCompletes ==
    \/ \E s \in Slots :
          InitializeLoaded(s) \/ InitializeSaved(s) \/ AlarmRead(s) \/ AlarmSet(s) \/ StateSaved(s)
    \/ RefillSaved
    \/ Rescheduled

\* Time passes, the runtime runs an alarm that is due however many requests come, and
\* every storage operation completes.
DurableFairSpec ==
    /\ Init
    /\ [][DurableNext]_vars
    /\ WF_vars(TimePasses)
    /\ SF_vars(Alarm(DurableEnv))
    /\ WF_vars(StorageCompletes)

\* Two clients of one object and the alarm, every call delivered whenever it comes.
MaxRaceCalls == 3

DurableRaceEnv == [callers |-> {"c1", "c2"}, serialized |-> FALSE, maxCalls |-> MaxRaceCalls]

DurableRaceNext ==
    \/ \E s \in Slots : LimiterStep(s, DurableRaceEnv)
    \/ Alarm(DurableRaceEnv)
    \/ RefillSaved
    \/ Rescheduled
    \/ TimePasses
    \/ Evict

DurableRaceSpec == Init /\ [][DurableRaceNext]_vars

(***************************************************************************)
(* rateLimiter(ip) (ratelimit.ts, in scaffolder.ts): the in-process token  *)
(* buckets.  bucket.tokens is a fraction in the code; it is kept here in    *)
(* thousandths of a token, which is exact as long as the clock is read in   *)
(* milliseconds: elapsed * refillRate tokens are (now - lastRefill) *       *)
(* refillRate thousandths.                                                  *)
(***************************************************************************)
capacity == 20
refillRate == 1
MillisecondsPerSecond == 1000

ClockStep == 500
MaxClock == 2000

\* success without bucket.tokens -= 1
rateLimiter_free(ip, now, bs) ==
    LET bucket == IF bs[ip] = None
                  THEN [tokens |-> capacity * MillisecondsPerSecond, lastRefill |-> now]
                  ELSE Get(bs[ip])
        newTokens == (now - bucket.lastRefill) * refillRate
        tokens == Min(capacity * MillisecondsPerSecond, bucket.tokens + newTokens)
    IN  [buckets |-> [bs EXCEPT ![ip] = Some([tokens |-> tokens, lastRefill |-> now])],
         result |-> IF tokens >= MillisecondsPerSecond
                    THEN [success |-> TRUE, limit |-> capacity,
                          remaining |-> tokens \div MillisecondsPerSecond]
                    ELSE [success |-> FALSE, limit |-> capacity, remaining |-> 0]]

\* rateLimiter(ip) at Date.now() = now on the Map bs: the Map afterwards and the result
rateLimiter(ip, now, bs) ==
    LET bucket == IF bs[ip] = None
                  THEN [tokens |-> capacity * MillisecondsPerSecond, lastRefill |-> now]
                  ELSE Get(bs[ip])
        newTokens == (now - bucket.lastRefill) * refillRate
        tokens == Min(capacity * MillisecondsPerSecond, bucket.tokens + newTokens)
    IN  IF tokens >= MillisecondsPerSecond
        THEN [buckets |-> [bs EXCEPT ![ip] = Some([tokens |-> tokens - MillisecondsPerSecond,
                                                   lastRefill |-> now])],
              result |-> [success |-> TRUE, limit |-> capacity,
                          remaining |-> (tokens - MillisecondsPerSecond) \div MillisecondsPerSecond]]
        ELSE [buckets |-> [bs EXCEPT ![ip] = Some([tokens |-> tokens, lastRefill |-> now])],
              result |-> [success |-> FALSE, limit |-> capacity, remaining |-> 0]]

\* a call of rateLimiter(ip)
CallRateLimiter(ip) ==
    /\ LET after == rateLimiter(ip, clock, buckets)
       IN  /\ buckets' = after.buckets
           /\ call' = [fn |-> "rateLimiter", input |-> [ip |-> ip, now |-> clock],
                       output |-> Some(after.result)]
    /\ UNCHANGED <<lifecycle, coalescer, limiter, clock, trigger>>

\* time passes
ClockTick ==
    /\ clock + ClockStep <= MaxClock
    /\ clock' = clock + ClockStep
    /\ UNCHANGED <<lifecycle, coalescer, call, limiter, buckets, trigger>>

BucketsNext ==
    \/ \E ip \in Clients : CallRateLimiter(ip)
    \/ ClockTick

BucketsSpec == Init /\ [][BucketsNext]_vars

(***************************************************************************)
(* The entry points of the worker (index.ts fetch): /api/ goes through the *)
(* middleware of routes.ts to the router, /ws/ to the WebSocket handler,   *)
(* /mcp to the tool dispatcher.  trigger[p] is the request that asks for   *)
(* invocation p and what admission control said of it: "admitted",          *)
(* "rejected" (the 429 response) or "unchecked" when no limiter was asked.  *)
(***************************************************************************)
\* POST /api/sessions/:session_id/search: the rate-limit middleware, then the handler
HttpSearch(p, ip) ==
    /\ pc[p] = "idle"
    /\ trigger[p] = None
    /\ LET after == rateLimiter(ip, clock, buckets)
       IN  /\ buckets' = after.buckets
           /\ trigger' = [trigger EXCEPT ![p] =
                             Some([entry |-> "http", ip |-> ip,
                                   admission |-> IF after.result.success THEN "admitted"
                                                 ELSE "rejected"])]
    /\ UNCHANGED <<lifecycle, coalescer, call, limiter, clock>>

\* a start_search message on the WebSocket of a session
WsStartSearch(p, ip) ==
    /\ pc[p] = "idle"
    /\ trigger[p] = None
    /\ trigger' = [trigger EXCEPT ![p] = Some([entry |-> "ws", ip |-> ip, admission |-> "unchecked"])]
    /\ UNCHANGED <<lifecycle, coalescer, call, limiter, buckets, clock>>

\* POST /mcp with the tool run_search
McpRunSearch(p, ip) ==
    /\ pc[p] = "idle"
    /\ trigger[p] = None
    /\ trigger' = [trigger EXCEPT ![p] = Some([entry |-> "mcp", ip |-> ip, admission |-> "unchecked"])]
    /\ UNCHANGED <<lifecycle, coalescer, call, limiter, buckets, clock>>

\* the handler of the request calls runSearchLifecycle, unless the middleware has
\* answered 429
Handle(p, env) ==
    /\ trigger[p] # None
    /\ Get(trigger[p]).admission # "rejected"
    /\ RunSearchLifecycle(p, env)

\* the Map of buckets when the requests come: new, or the bucket of ip1 used up
TriggerBuckets ==
    {NoBuckets, [NoBuckets EXCEPT !["ip1"] = Some([tokens |-> 0, lastRefill |-> 0])]}

TriggerInit ==
    /\ LifecycleInit
    /\ coalescer = NoCoalescer
    /\ call = NoCall
    /\ limiter = FreshLimiter
    /\ buckets \in TriggerBuckets
    /\ clock = 0
    /\ trigger = NoTrigger
    /\ ws = NoSocket

TriggerEnv ==
    [callers |-> Procs, serialized |-> TRUE, sessions |-> {"s1"},
     baseKeywords |-> {FALSE}, within |-> {<<>>},
     policies |-> {Some([max_attempts |-> Some(1), min_score |-> None])},
     search |-> {[ok |-> TRUE, items |-> <<<<"n1">>>>]},
     judge |-> {[kind |-> "content",
                 body |-> Some([overall_findings |-> 10, recommendations |-> <<"qA">>,
                                per_repo |-> <<[full_name |-> "o/r1", score |-> 80, note |-> 5]>>])]}]

TriggerNext ==
    \/ \E p \in Procs, ip \in Clients : HttpSearch(p, ip)
    \/ \E p \in Procs, ip \in Clients : WsStartSearch(p, ip)
    \/ \E p \in Procs, ip \in Clients : McpRunSearch(p, ip)
    \/ \E p \in Procs : Handle(p, TriggerEnv)
    \/ \E p \in Procs :
          \/ RunGitHubSearch(p, TriggerEnv)
          \/ NextResultGroup(p)
          \/ InsertAttempt(p)
          \/ SelectAttempt(p)
          \/ FetchReadmes(p)
          \/ InsertRepos(p)
          \/ InsertSearchResults(p)
          \/ RunJudge(p, TriggerEnv)
          \/ SelectJudgeReview(p)
          \/ WriteJudgeReview(p)
          \/ UpdateResultScores(p)
          \/ AttemptComplete(p)

TriggerSpec == TriggerInit /\ [][TriggerNext]_vars

(***************************************************************************)
(* db.upsertJudgeReview called again and again, each call run to its end    *)
(* before the next: the SELECT and the write of one call are one step.     *)
(***************************************************************************)
MaxAttemptIds == 3
MaxReviews == 4

UpsertCalls ==
    [session_id : {"s1"}, search_attempt_id : 1..MaxAttemptIds,
     overall_judge_findings : {10, 11}, judge_recommendations : {<<>>, <<"qA">>}]

UpsertJudgeReview(data) ==
    /\ Len(judge_reviews) < MaxReviews
    /\ judge_reviews' = writeJudgeReview(ExistingReview(data.search_attempt_id), data)
    /\ call' = [fn |-> "upsertJudgeReview", input |-> data, output |-> None]
    /\ UNCHANGED <<search_attempts, repos, search_results, pc, options, searchWithin, currentQuery,
                   attemptIndex, attempts, round, log, events, outcome, coalescer, limiter,
                   buckets, clock, trigger, ws>>

UpsertNext == \E data \in UpsertCalls : UpsertJudgeReview(data)

UpsertSpec == Init /\ [][UpsertNext]_vars

(***************************************************************************)
(* The claims.  What a claim calls max_attempts and min_score is read off  *)
(* the caller's options with the documented defaults (3 and 0.65), not off *)
(* the operators above.                                                    *)
(***************************************************************************)
DocMaxAttempts(p) ==
    IF options[p].retryPolicy = None THEN 3
    ELSE IF Get(options[p].retryPolicy).max_attempts = None THEN 3
    ELSE Get(Get(options[p].retryPolicy).max_attempts)

DocMinScore(p) ==
    IF options[p].retryPolicy = None THEN 65
    ELSE IF Get(options[p].retryPolicy).min_score = None THEN 65
    ELSE Get(Get(options[p].retryPolicy).min_score)

\* median >= min_score or top5Mean >= 0.75, for the statistics of a judged round
MeetsThreshold(p, stats) ==
    \/ Get(stats.median2) >= 2 * DocMinScore(p)
    \/ stats.top5Sum >= 75 * stats.top5Len

Finished(p) == pc[p] \in {"done", "error"}

LastSummary(p) == attempts[p][Len(attempts[p])]

\* a round has completed below both thresholds with something to refine with
BelowWithRecommendations(p, summary) ==
    /\ ~MeetsThreshold(p, summary.stats)
    /\ summary.recommendations # <<>>

\* C1: a completed round whose statistics satisfy median >= min_score or
\* top5Mean >= 0.75 is the last round of its lifecycle: the lifecycle has returned
\* with that round as the last summary and no further round was started.
C1_ConvergedRoundIsLast ==
    \A p \in Procs : \A k \in 1..Len(attempts[p]) :
        MeetsThreshold(p, attempts[p][k].stats) =>
            /\ k = Len(attempts[p])
            /\ pc[p] = "done"
            /\ outcome[p] = "returned"

\* a lifecycle that stopped after two rounds on a converged round although the judge
\* recommended a follow-up query and a third attempt was allowed
C1_Witness ==
    \E p \in Procs :
        /\ pc[p] = "done"
        /\ Len(attempts[p]) = 2
        /\ MeetsThreshold(p, LastSummary(p).stats)
        /\ LastSummary(p).recommendations # <<>>
        /\ DocMaxAttempts(p) = 3
        /\ options[p].retryPolicy # None

\* C2: after a round below both thresholds with a non-empty recommendation list and
\* fewer than max_attempts rounds done, the next round is executed, and the input
\* query of every round after the first is the first recommendation of the round
\* before it.
C2_RefinesWithFirstRecommendation ==
    \A p \in Procs :
        /\ \A k \in 1..Len(attempts[p]) :
              k > 1 => attempts[p][k].query = attempts[p][k - 1].recommendations[1]
        /\ ( /\ Len(attempts[p]) >= 1
             /\ BelowWithRecommendations(p, LastSummary(p))
             /\ Len(attempts[p]) < DocMaxAttempts(p) )
           => /\ pc[p] # "done"
              /\ attemptIndex[p] = Len(attempts[p])
              /\ currentQuery[p] = LastSummary(p).recommendations[1]
              /\ (pc[p] # "runGitHubSearch" => round[p].query = currentQuery[p])

\* C2 on the policies that carry max_attempts (or no policy at all)
C2_WhenMaxAttemptsGiven ==
    \A p \in Procs :
        (options[p].retryPolicy # None => Get(options[p].retryPolicy).max_attempts # None)
        => /\ \A k \in 1..Len(attempts[p]) :
                 k > 1 => attempts[p][k].query = attempts[p][k - 1].recommendations[1]
           /\ ( /\ Len(attempts[p]) >= 1
                /\ BelowWithRecommendations(p, LastSummary(p))
                /\ Len(attempts[p]) < DocMaxAttempts(p) )
              => /\ pc[p] # "done"
                 /\ currentQuery[p] = LastSummary(p).recommendations[1]

\* C3: a lifecycle executes at most max_attempts rounds, and one that returns after
\* rounds that all scored below threshold with recommendations returns exactly
\* max_attempts summaries.
C3_AtMostMaxAttemptsRounds ==
    \A p \in Procs :
        /\ Len(attempts[p]) <= DocMaxAttempts(p)
        /\ attemptIndex[p] <= DocMaxAttempts(p)
        /\ ( /\ pc[p] = "done"
             /\ \A k \in 1..Len(attempts[p]) : BelowWithRecommendations(p, attempts[p][k]) )
           => Len(attempts[p]) = DocMaxAttempts(p)

\* C3 on the policies that carry max_attempts (or no policy at all)
C3_WhenMaxAttemptsGiven ==
    \A p \in Procs :
        (options[p].retryPolicy # None => Get(options[p].retryPolicy).max_attempts # None)
        => /\ Len(attempts[p]) <= DocMaxAttempts(p)
           /\ (pc[p] \notin {"idle", "done", "error"} => attemptIndex[p] < DocMaxAttempts(p))
           /\ ( /\ pc[p] = "done"
                /\ \A k \in 1..Len(attempts[p]) : BelowWithRecommendations(p, attempts[p][k]) )
              => Len(attempts[p]) = DocMaxAttempts(p)

\* the judge's reply to round 1 of p, when it has one
FirstJudgeReply(p) ==
    LET at == {i \in 1..Len(log[p]) : log[p][i].service = "judge" /\ log[p][i].round = 0}
    IN  IF at = {} THEN None ELSE Some(log[p][CHOOSE i \in at : TRUE].reply)

\* round 1's judge response scores below the threshold and recommends nothing
FirstRoundBelowWithoutRecommendations(p) ==
    /\ FirstJudgeReply(p) # None
    /\ Get(FirstJudgeReply(p)).kind = "content"
    /\ LET body == Get(Get(FirstJudgeReply(p)).body)
       IN  /\ body.recommendations = <<>>
           /\ body.overall_findings <= 500
           /\ ~MeetsThreshold(p, computeStatistics(body.per_repo))

\* C4: when round 1's judge response scores below the threshold and holds zero
\* recommendations, the lifecycle ends normally after round 1 with exactly one round
\* summary: no error, no round 2.
C4_NoRecommendationEndsNormally ==
    \A p \in Procs :
        FirstRoundBelowWithoutRecommendations(p) =>
            /\ pc[p] # "error"
            /\ attemptIndex[p] = 0
            /\ (pc[p] = "done" => outcome[p] = "returned" /\ Len(attempts[p]) = 1)

\* C5: the defaults of the retry policy apply per field.  With no policy or with one
\* that omits max_attempts, a round below threshold with recommendations is followed
\* by another round until 3 rounds are done; with min_score omitted, a round
\* converges on its median exactly from 0.65.
C5_DefaultsPerField ==
    \A p \in Procs :
        /\ ( /\ options[p].retryPolicy # None => Get(options[p].retryPolicy).max_attempts = None
             /\ pc[p] = "done"
             /\ \A k \in 1..Len(attempts[p]) : BelowWithRecommendations(p, attempts[p][k]) )
           => Len(attempts[p]) = 3
        /\ ( /\ options[p].retryPolicy # None => Get(options[p].retryPolicy).min_score = None
             /\ pc[p] = "done"
             /\ Len(attempts[p]) >= 1
             /\ Len(attempts[p]) < DocMaxAttempts(p)
             /\ LastSummary(p).recommendations # <<>> )
           => \/ Get(LastSummary(p).stats.median2) >= 2 * 65
              \/ LastSummary(p).stats.top5Sum >= 75 * LastSummary(p).stats.top5Len

\* the part of C5 about min_score: with min_score omitted, the lifecycle stops on a
\* round with recommendations and attempts left only if its median is at least 0.65
\* or its top-5 mean at least 0.75
C5_MinScoreDefault ==
    \A p \in Procs :
        ( /\ options[p].retryPolicy # None => Get(options[p].retryPolicy).min_score = None
          /\ pc[p] = "done"
          /\ Len(attempts[p]) >= 1
          /\ Len(attempts[p]) < LoopLimit(RetryPolicyOf(options[p]))
          /\ LastSummary(p).recommendations # <<>> )
        => \/ Get(LastSummary(p).stats.median2) >= 2 * 65
           \/ LastSummary(p).stats.top5Sum >= 75 * LastSummary(p).stats.top5Len

\* a reply that makes retrieval fail: a search call, or a README fetch that fails with
\* something other than not-found
RetrievalFailure(e) ==
    \/ e.service = "search" /\ ~e.reply.ok
    \/ e.service = "readme" /\ \E i \in 1..Len(e.reply) : e.reply[i] = "error"

\* a reply that makes judging fail: a non-success status, an empty body, or a body
\* outside the schema (the number of recommendations, which C4 is about, left aside)
JudgeFailure(e) ==
    /\ e.service = "judge"
    /\ \/ e.reply.kind \in {"http_error", "empty"}
       \/ /\ e.reply.kind = "content"
          /\ LET body == Get(e.reply.body)
             IN  \/ body.overall_findings > 500
                 \/ body.per_repo = <<>>
                 \/ Len(body.recommendations) > 5
                 \/ \E i \in 1..Len(body.per_repo) :
                       \/ body.per_repo[i].score < 0
                       \/ body.per_repo[i].score > 100
                       \/ body.per_repo[i].note > 240

\* C6: a retrieval or judging failure in round k ends the lifecycle at once with an
\* error: the failing reply is the last one the invocation ever asks for (round k is
\* not re-run, no later round starts), the outcome is "error" and not a returned list,
\* and only the rounds before k have a summary.
C6_FailureEndsLifecycleWithError ==
    \A p \in Procs : \A i \in 1..Len(log[p]) :
        (RetrievalFailure(log[p][i]) \/ JudgeFailure(log[p][i])) =>
            /\ i = Len(log[p])
            /\ pc[p] = "error"
            /\ outcome[p] = "error"
            /\ attemptIndex[p] = log[p][i].round
            /\ Len(attempts[p]) = log[p][i].round

\* the judge failed in the second round of a lifecycle
C6_Witness ==
    \E p \in Procs :
        /\ pc[p] = "error"
        /\ Len(attempts[p]) = 1
        /\ JudgeFailure(log[p][Len(log[p])])
        /\ log[p][Len(log[p])].round = 1

\* the rows of the round p is in: its Attempt, the repo row and the unscored Result
\* of each of its candidate items, and no JudgeReview of the Attempt
AuditTrail(p) ==
    /\ round[p].attempt # None
    /\ \E i \in 1..Len(search_attempts) : search_attempts[i] = Get(round[p].attempt)
    /\ Get(round[p].attempt).session_id = options[p].sessionId
    /\ \A i \in 1..Len(round[p].filtered) :
          /\ \E r \in repos : r.id = round[p].filtered[i].node_id
          /\ \E x \in search_results :
                /\ x.session_id = options[p].sessionId
                /\ x.search_attempt_id = Get(round[p].attempt).id
                /\ x.repo_id = round[p].filtered[i].node_id
                /\ x.judge_relevance_score = None
                /\ x.judge_finding = None
    /\ \A x \in search_results :
          x.search_attempt_id = Get(round[p].attempt).id =>
              x.judge_relevance_score = None /\ x.judge_finding = None
    /\ \A i \in 1..Len(judge_reviews) :
          judge_reviews[i].search_attempt_id # Get(round[p].attempt).id

JudgeThrew(p) ==
    /\ pc[p] = "error"
    /\ log[p] # <<>>
    /\ log[p][Len(log[p])].service = "judge"

C8_NoPartialRound ==
    \A p \in Procs :
        (log[p] # <<>> /\ RetrievalFailure(log[p][Len(log[p])])) =>
            /\ round[p].attempt = None
            /\ Cardinality(SessionAttempts(options[p].sessionId)) = Len(attempts[p])

\* C8 for the search calls alone
C8_SearchFailurePersistsNothing ==
    \A p \in Procs :
        (log[p] # <<>> /\ log[p][Len(log[p])].service = "search" /\ ~log[p][Len(log[p])].reply.ok) =>
            /\ round[p].attempt = None
            /\ Cardinality(SessionAttempts(options[p].sessionId)) = Len(attempts[p])

\* the result_group values of a session's Attempts, in creation order
ResultGroups(sessionId) ==
    SelectSeq([i \in 1..Len(search_attempts) |->
                  IF search_attempts[i].session_id = sessionId
                  THEN search_attempts[i].result_group ELSE 0],
              LAMBDA g : g # 0)

\* C9: with rounds executed one after the other, the result_group values of every
\* session's Attempts are 1, 2, ..., n in creation order.
C9_ResultGroupsGapFree ==
    \A s \in Sessions : \A i \in 1..Len(ResultGroups(s)) : ResultGroups(s)[i] = i

\* two invocations have run on one session, one of them has failed after its Attempt
\* was created, and the session has three Attempts
C9_Witness ==
    \E s \in Sessions :
        /\ Len(ResultGroups(s)) >= 3
        /\ \A p \in Procs : options[p].sessionId = s /\ Finished(p)
        /\ \E p \in Procs : pc[p] = "error" /\ round[p].attempt # None

\* C10: no two Attempts of a session carry the same result_group.
C10_ResultGroupNeverReused ==
    \A i, j \in 1..Len(search_attempts) :
        ( /\ i # j
          /\ search_attempts[i].session_id = search_attempts[j].session_id )
        => search_attempts[i].result_group # search_attempts[j].result_group

SameTriple(x, y) ==
    /\ x.session_id = y.session_id
    /\ x.search_attempt_id = y.search_attempt_id
    /\ x.repo_id = y.repo_id

\* C11: insertSearchResults is idempotent on the (session, attempt, item) triple: every
\* Result that was stored is stored unchanged afterwards (content, score and note), a
\* row whose triple was stored adds nothing, and the number of Results grows by the
\* number of triples that were not stored.
C11_InsertIsIdempotent ==
    Called("insertSearchResults") =>
        LET rows == call.input.rows
            before == call.input.table
            after == Get(call.output)
            fresh == {t \in Triples : /\ \E i \in 1..Len(rows) : SameTriple(rows[i], t)
                                      /\ ~\E x \in before : SameTriple(x, t)}
        IN  /\ before \subseteq after
            /\ \A x, y \in after : SameTriple(x, y) => x = y
            /\ Cardinality(after) = Cardinality(before) + Cardinality(fresh)
            /\ insertSearchResults(rows, after) = after

\* a row was inserted whose triple was stored with a score and another content
C11_Witness ==
    /\ Called("insertSearchResults")
    /\ \E x \in call.input.table :
          /\ SameTriple(x, call.input.rows[1])
          /\ x.judge_relevance_score # None
          /\ x.readme_content # call.input.rows[1].readme_content
          /\ x \in Get(call.output)
    /\ Cardinality(Get(call.output)) = Cardinality(call.input.table)

\* the stable keys of a candidate list
Keys(candidates) == [i \in 1..Len(candidates) |-> candidates[i].node_id]

NoDuplicate(seq) == \A i, j \in 1..Len(seq) : i # j => seq[i] # seq[j]

\* C12: the candidate list of a round (announced, persisted and sent to the judge) holds
\* no two items with the same key, and holds the first occurrence of each key of the
\* concatenated output of the queries, in that order.
C12_CandidatesDistinct ==
    \A p \in Procs :
        /\ NoDuplicate(Keys(round[p].filtered))
        /\ Keys(round[p].filtered) =
              SelectSeq(dedupeBy(round[p].items, {}),
                        LAMBDA k : \E i \in 1..Len(round[p].filtered) : round[p].filtered[i].node_id = k)
        /\ \A i \in 1..Len(log[p]) :
              log[p][i].service = "judge" =>
                  NoDuplicate([k \in 1..Len(log[p][i].request) |-> log[p][i].request[k].full_name])

\* the keys already present in the prior sessions the caller named
PriorKeys(p) == {searchWithin[p][i] : i \in 1..Len(searchWithin[p])}

\* a reply of the provider or of the judge that was not a success
FailureReply(e) ==
    \/ e.service = "search" /\ ~e.reply.ok
    \/ e.service = "readme" /\ \E i \in 1..Len(e.reply) : e.reply[i] # "ok"
    \/ e.service = "judge" /\ runJudge(e.reply) = None

\* C13: the keys present in the prior sessions the caller supplied are excluded from the
\* round's candidates before judging: no such key is among the candidates, among the
\* Results of the round or in the request to the judge, and the round goes on with the
\* remaining items (it fails only on a failing reply of the provider or of the judge).
C13_PriorKeysExcluded ==
    \A p \in Procs :
        /\ \A i \in 1..Len(round[p].filtered) : round[p].filtered[i].node_id \notin PriorKeys(p)
        /\ \A x \in search_results :
              (round[p].attempt # None /\ x.search_attempt_id = Get(round[p].attempt).id)
                  => x.repo_id \notin PriorKeys(p)
        /\ \A i \in 1..Len(log[p]) :
              log[p][i].service = "judge" =>
                  \A k \in 1..Len(log[p][i].request) :
                      \A n \in PriorKeys(p) : log[p][i].request[k].full_name # FullName(n)
        /\ (PriorKeys(p) # {} /\ pc[p] = "error") => \E i \in 1..Len(log[p]) : FailureReply(log[p][i])

\* the rounds given prior keys never get as far as the judge
C13_NeverJudged ==
    \A p \in Procs :
        PriorKeys(p) # {} => pc[p] \in {"runGitHubSearch", "nextResultGroup", "insertAttempt",
                                         "selectAttempt", "fetchReadme", "insertRepos", "error"}

\* the README fetches of the round p is in were answered, none with an error, and
\* reply r was among the answers
ReadmesAnswered(p, r) ==
    /\ log[p] # <<>>
    /\ LET e == log[p][Len(log[p])]
       IN  /\ e.service = "readme"
           /\ \A i \in 1..Len(e.reply) : e.reply[i] \in {"ok", r}
           /\ \E i \in 1..Len(e.reply) : e.reply[i] = r
           /\ \A i \in 1..Len(e.request) : e.request[i] # Undefined

\* the items of the last README entry of the log that were answered with reply r
Answered(p, r) ==
    LET e == log[p][Len(log[p])]
    IN  {e.request[i] : i \in {k \in 1..Len(e.request) : e.reply[k] = r}}

\* C14: an item whose README fetch is answered not-found is left out of the round
\* without failing it: the round goes on, and its candidates (announced, persisted,
\* judged) are the items whose README was obtained.
C14_NotFoundExcludesItem ==
    \A p \in Procs :
        ReadmesAnswered(p, "not_found") =>
            /\ pc[p] # "error"
            /\ \A i \in 1..Len(round[p].filtered) :
                  round[p].filtered[i].node_id \notin (Answered(p, "not_found") \ Answered(p, "ok"))
            /\ \A n \in Answered(p, "ok") :
                  \E i \in 1..Len(round[p].filtered) : round[p].filtered[i].node_id = n

\* the README stored for a repo by an earlier round, if any
StoredReadme(n) == {x.readme_content : x \in {y \in search_results : y.repo_id = n}} \ {None}

C16_FreshTokenRecorded ==
    \A p \in Procs :
        (pc[p] = "insertSearchResults" /\ ReadmesAnswered(p, "ok")) =>
            \A n \in Answered(p, "ok") :
                \E r \in repos : r.id = n /\ r.etag = Some(ProviderEtag)

\* what the store records instead: the token the request was sent with
C16_RequestTokenRecorded ==
    \A p \in Procs :
        (pc[p] = "insertSearchResults" /\ ReadmesAnswered(p, "ok")) =>
            \A i \in 1..Len(round[p].filtered) :
                \E r \in repos : r.id = round[p].filtered[i].node_id /\ r.etag = round[p].filtered[i].etag

\* C17: the request to the judge holds at most 20 candidate items, the first 20 of the
\* round's candidate list in order, and the excerpt of each item's content is the
\* content cut to at most 2000 characters.
C17_JudgeRequestCapped ==
    /\ Called("judgePayload") =>
          LET candidates == call.input
              sent == Get(call.output)
          IN  /\ Len(sent) <= 20
              /\ Len(sent) = IF Len(candidates) <= 20 THEN Len(candidates) ELSE 20
              /\ \A i \in 1..Len(sent) :
                    /\ sent[i].full_name = candidates[i].full_name
                    /\ sent[i].readme_excerpt # None =>
                          /\ Get(sent[i].readme_excerpt) <= 2000
                          /\ Get(sent[i].readme_excerpt) <= Get(candidates[i].readme)
                          /\ \/ Get(sent[i].readme_excerpt) = 2000
                             \/ Get(sent[i].readme_excerpt) = Get(candidates[i].readme)
    /\ \A p \in Procs : \A i \in 1..Len(log[p]) :
          log[p][i].service = "judge" =>
              /\ Len(log[p][i].request) <= 20
              /\ \A k \in 1..Len(log[p][i].request) :
                    log[p][i].request[k].readme_excerpt # None =>
                        Get(log[p][i].request[k].readme_excerpt) <= 2000

\* a list of more than 20 candidates with a README of more than 2000 characters among
\* the first 20 was cut to 20 items and to 2000 characters
C17_Witness ==
    /\ Called("judgePayload")
    /\ Len(call.input) > 20
    /\ Len(Get(call.output)) = 20
    /\ \E i \in 1..20 :
          /\ Get(call.input[i].readme) > 2000
          /\ Get(call.output)[i].readme_excerpt = Some(2000)

\* a judge response as the claim wants it: a narrative of at most 500 characters, 1 to 5
\* recommendations, a non-empty per-item list with scores in [0, 1] and notes of at
\* most 240 characters
Conforms(reply) ==
    /\ reply.kind = "content"
    /\ LET body == Get(reply.body)
       IN  /\ body.overall_findings <= 500
           /\ Len(body.recommendations) \in 1..5
           /\ body.per_repo # <<>>
           /\ \A i \in 1..Len(body.per_repo) :
                 /\ body.per_repo[i].score \in 0..100
                 /\ body.per_repo[i].note <= 240

\* C18: runJudge returns a result exactly on a conforming response; on any other
\* response, a non-success status or an empty body it fails, and the failure ends the
\* round and the lifecycle: the judge is not asked again and the round has no summary.
C18_JudgeResultOnlyIfConforming ==
    \A p \in Procs : \A i \in 1..Len(log[p]) :
        log[p][i].service = "judge" =>
            IF Conforms(log[p][i].reply)
            THEN /\ runJudge(log[p][i].reply) = log[p][i].reply.body
                 /\ ~(pc[p] = "error" /\ i = Len(log[p]))
                 /\ i = Len(log[p]) =>
                       \/ round[p].judge = log[p][i].reply.body
                       \/ /\ attempts[p] # <<>>
                          /\ LastSummary(p).recommendations = Get(log[p][i].reply.body).recommendations
            ELSE /\ runJudge(log[p][i].reply) = None
                 /\ pc[p] = "error"
                 /\ outcome[p] = "error"
                 /\ i = Len(log[p])
                 /\ Len(attempts[p]) = log[p][i].round

\* in its second round the judge answered with a note of 241 characters
C18_Witness ==
    \E p \in Procs :
        /\ pc[p] = "error"
        /\ Len(attempts[p]) = 1
        /\ log[p][Len(log[p])].service = "judge"
        /\ log[p][Len(log[p])].reply.kind = "content"
        /\ \E i \in 1..Len(Get(log[p][Len(log[p])].reply.body).per_repo) :
              Get(log[p][Len(log[p])].reply.body).per_repo[i].note = 241

\* the k-th smallest score of a list, by counting
Kth(perRepo, k) ==
    CHOOSE v \in {perRepo[i].score : i \in 1..Len(perRepo)} :
        /\ Cardinality({i \in 1..Len(perRepo) : perRepo[i].score < v}) < k
        /\ k <= Cardinality({i \in 1..Len(perRepo) : perRepo[i].score <= v})

RECURSIVE SumOfKth(_, _, _)
SumOfKth(perRepo, from, to) ==
    IF from > to THEN 0 ELSE Kth(perRepo, from) + SumOfKth(perRepo, from + 1, to)

\* C19: for a non-empty score list computeStatistics returns the median (the middle
\* value of the sorted scores, the average of the two middle values for an even count)
\* and the mean of the 5 highest scores, or of all of them when there are fewer than 5,
\* whatever the order of the list; the median of [0.2, 0.5, 0.9] and of
\* [0.2, 0.4, 0.6, 0.8] is 0.5.
C19_MedianAndTop5Mean ==
    Called("computeStatistics") =>
        LET perRepo == call.input
            n == Len(perRepo)
            stats == Get(call.output)
        IN  /\ stats.median2 =
                  Some(IF n % 2 = 1 THEN 2 * Kth(perRepo, (n + 1) \div 2)
                       ELSE Kth(perRepo, n \div 2) + Kth(perRepo, (n \div 2) + 1))
            /\ stats.top5Len = (IF n < 5 THEN n ELSE 5)
            /\ stats.top5Sum = SumOfKth(perRepo, IF n < 5 THEN 1 ELSE n - 4, n)
            /\ {perRepo[i].score : i \in 1..n} = {20, 50, 90} /\ n = 3 => stats.median2 = Some(100)
            /\ {perRepo[i].score : i \in 1..n} = {20, 40, 60, 80} /\ n = 4 => stats.median2 = Some(100)

\* the statistics of six scores given out of order: [0.9, 0.2, 0.8, 0.4, 0.6, 0.5]
C19_Witness ==
    /\ Called("computeStatistics")
    /\ [i \in 1..Len(call.input) |-> call.input[i].score] = <<90, 20, 80, 40, 60, 50>>
    /\ Get(call.output) = [median2 |-> Some(110), top5Sum |-> 320, top5Len |-> 5]

RECURSIVE Concat(_)
Concat(batches) == IF batches = <<>> THEN <<>> ELSE Head(batches).events \o Concat(Tail(batches))

\* C20: from an empty buffer, maxBatch events emitted back to back make one call of the
\* emit callback, holding all maxBatch events in emission order, and the timer armed by
\* the first of them is cancelled: a call made by the maxBatch-th event holds exactly
\* the maxBatch events emitted since the buffer was empty, every event is passed on
\* once and in order, and while the buffer is empty no timer is pending and the
\* callback is never called with an empty batch.
C20_FullBatchFlushedOnce ==
    coalescer.maxBatch > 0 =>
        /\ \A i \in 1..Len(coalescer.batches) :
              /\ coalescer.batches[i].events # <<>>
              /\ Len(coalescer.batches[i].events) <= coalescer.maxBatch
              /\ coalescer.batches[i].by = "emit" <=>
                    Len(coalescer.batches[i].events) = coalescer.maxBatch
        /\ Concat(coalescer.batches) \o coalescer.buffer = [k \in 1..coalescer.emitted |-> k]
        /\ Len(coalescer.buffer) < coalescer.maxBatch
        /\ coalescer.buffer = <<>> => coalescer.timers = {}
        /\ Cardinality(coalescer.timers) <= 1

\* three events emitted back to back into a coalescer of maxBatch 3: one call with the
\* three of them, the timer of the first one cancelled
C20_Witness ==
    /\ coalescer.maxBatch = 3
    /\ coalescer.emitted = 3
    /\ coalescer.batches = <<[events |-> <<1, 2, 3>>, by |-> "emit"]>>
    /\ coalescer.buffer = <<>>
    /\ coalescer.nextTimer = 2
    /\ coalescer.timers = {}

\* C21: when the promise returned by a call of flush() is resolved, every event that
\* was in the buffer at that call has been passed to the emit callback in a call that
\* has completed; also for a flush() that joined a pending one and with timer- and
\* size-triggered flushes in between.
C21_FlushWaitsForBufferedEvents ==
    \A k \in 1..Len(coalescer.flushes) :
        coalescer.flushes[k].promise \in coalescer.resolved =>
            \A ev \in coalescer.flushes[k].events :
                \E i \in 1..Len(coalescer.batches) :
                    /\ i \notin coalescer.inflight
                    /\ \E j \in 1..Len(coalescer.batches[i].events) :
                          coalescer.batches[i].events[j] = ev

\* C22: under every interleaving of emit, flush, timer firings and the completion of
\* the callback, the events passed to the emit callback, read batch after batch, are
\* in emission order with none passed twice, and none of them is still buffered.
C22_EachEventOnceInOrder ==
    coalescer.maxBatch > 0 =>
        LET passed == Concat(coalescer.batches)
        IN  /\ \A i, j \in 1..Len(passed) : i < j => passed[i] < passed[j]
            /\ \A i \in 1..Len(passed) :
                  /\ passed[i] \in 1..coalescer.emitted
                  /\ \A j \in 1..Len(coalescer.buffer) : coalescer.buffer[j] # passed[i]

\* a size-triggered, a timer-triggered and an explicit flush, two of the callback's
\* calls still pending
C22_Witness ==
    /\ coalescer.maxBatch > 0
    /\ \A by \in {"emit", "timer", "flush"} :
          \E i \in 1..Len(coalescer.batches) : coalescer.batches[i].by = by
    /\ Cardinality(coalescer.inflight) >= 2
    /\ coalescer.emitted = MaxEvents

\* the last result of consume() in slot s, and the consume() calls that have returned
\* one and not been called again
LastResult(s) == Get(limiter.calls[s].result)

Returned == {s \in Slots : limiter.calls[s].pc = "idle" /\ limiter.calls[s].result # None}

\* C23: on a RateLimiter with nothing persisted, the first capacity consume() calls
\* that return before any alarm has run return zero wait and are admitted; the next
\* one returns a positive wait and is rejected; a consume() called after an alarm has
\* run is admitted.
C23_CapacityThenRejected ==
    \A s \in Returned :
        /\ (limiter.consumed # None /\ Get(limiter.consumed) <= RateLimiterCapacity) =>
              /\ LastResult(s).millisecondsToNextRequest = 0
              /\ checkRateLimit(LastResult(s)).success
        /\ limiter.consumed = Some(RateLimiterCapacity + 1) =>
              /\ LastResult(s).millisecondsToNextRequest > 0
              /\ ~checkRateLimit(LastResult(s)).success
        /\ LastResult(s).wakeups > 0 => checkRateLimit(LastResult(s)).success

\* the same, the call after the first capacity ones taken only while the time of the
\* alarm has not come (this holds)
C23_BeforeAlarmTime ==
    \A s \in Returned :
        /\ (limiter.consumed # None /\ Get(limiter.consumed) <= RateLimiterCapacity) =>
              /\ LastResult(s).millisecondsToNextRequest = 0
              /\ checkRateLimit(LastResult(s)).success
        /\ (limiter.consumed = Some(RateLimiterCapacity + 1)
                /\ limiter.alarm # None /\ Get(limiter.alarm) > 0) =>
              /\ LastResult(s).millisecondsToNextRequest > 0
              /\ ~checkRateLimit(LastResult(s)).success
        /\ LastResult(s).wakeups > 0 => checkRateLimit(LastResult(s)).success

\* C24: a request is admitted only if its consume() found a token and took it; a
\* consume() that found none is rejected, also when the time of the alarm has come
\* and the alarm has not run.
C24_AdmittedOnlyWithToken ==
    \A s \in Returned :
        checkRateLimit(LastResult(s)).success <=> LastResult(s).tokenTaken

\* C25: the count is always within 0..capacity; an alarm that finds it below capacity
\* adds milliseconds_for_updates to it, no further than capacity; when the handler
\* returns another alarm is scheduled exactly if the count is below capacity; with no
\* consume() in between no more than capacity / milliseconds_for_updates alarms run,
\* and where none is scheduled any more the bucket is full.
C25_RefillStep ==
    LET handler == limiter.calls["alarm"].pc
        before == IF limiter.tokens # None THEN Get(limiter.tokens)
                  ELSE IF limiter.calls["alarm"].stored # None THEN Get(limiter.calls["alarm"].stored)
                  ELSE RateLimiterCapacity
    IN  /\ limiter'.tokens # None => Get(limiter'.tokens) \in 0..RateLimiterCapacity
        /\ limiter'.stored # None => Get(limiter'.stored) \in 0..RateLimiterCapacity
        /\ (handler # "saveState" /\ limiter'.calls["alarm"].pc = "saveState") =>
              /\ before < RateLimiterCapacity
              /\ limiter'.tokens = Some(Min(RateLimiterCapacity, before + milliseconds_for_updates))
        /\ (handler # "idle" /\ limiter'.calls["alarm"].pc = "idle") =>
              /\ limiter'.alarm # None <=> Get(limiter'.tokens) < RateLimiterCapacity
              /\ before < RateLimiterCapacity => handler \in {"saveState", "setAlarm"}
        /\ limiter'.wakeups <= 2
        /\ (NoCallInFlight(limiter') /\ limiter'.alarm = None /\ limiter'.stored # None) =>
              limiter'.stored = Some(RateLimiterCapacity)

C25_WakeupsRefillAndStop == [][C25_RefillStep]_vars

\* the bucket was emptied far enough for two alarms; after the second no alarm is
\* scheduled and the bucket is full
C25_Witness ==
    /\ limiter.wakeups = 2
    /\ NoCallInFlight(limiter)
    /\ limiter.alarm = None
    /\ limiter.tokens = Some(RateLimiterCapacity)

Available(ip) ==
    IF buckets[ip] = None THEN 20 * 1000
    ELSE Min(20 * 1000, Get(buckets[ip]).tokens + (clock - Get(buckets[ip]).lastRefill))

\* C27: every bucket holds between 0 and capacity tokens; a request of a client is
\* admitted exactly when, after the refill for the time since its last request, its
\* bucket holds at least one token, and then takes exactly one; a rejected request
\* takes none; the buckets of the other clients do not change.
C27_RequestStep ==
    /\ \A ip \in Clients :
          buckets'[ip] # None => Get(buckets'[ip]).tokens \in 0..(20 * 1000)
    /\ (call'.fn = "rateLimiter" /\ (call' # call \/ buckets' # buckets)) =>
          LET ip == call'.input.ip
              result == Get(call'.output)
          IN  /\ result.success <=> Available(ip) >= 1000
              /\ Get(buckets'[ip]).tokens =
                     IF result.success THEN Available(ip) - 1000 ELSE Available(ip)
              /\ \A other \in Clients \ {ip} : buckets'[other] = buckets[other]

C27_OneTokenPerAdmittedRequest == [][C27_RequestStep]_vars

\* a client is rejected on a bucket that was refilled by less than a token, while the
\* other client's bucket still holds tokens
C27_Witness ==
    /\ call.fn = "rateLimiter"
    /\ ~Get(call.output).success
    /\ clock > 0
    /\ Get(buckets[call.input.ip]).tokens > 0
    /\ \E other \in Clients \ {call.input.ip} :
          buckets[other] # None /\ Get(buckets[other]).tokens >= 1000

\* C28: whatever asks for a search (the HTTP search request, start_search on the
\* WebSocket, the MCP tool run_search) has been admitted by admission control before
\* runSearchLifecycle is entered.
C28_AdmissionBeforeLifecycle ==
    \A p \in Procs :
        pc[p] # "idle" => trigger[p] # None /\ Get(trigger[p]).admission = "admitted"

\* the same of the HTTP search request alone (this holds)
C28_HttpAdmitted ==
    \A p \in Procs :
        (pc[p] # "idle" /\ trigger[p] # None /\ Get(trigger[p]).entry = "http")
            => Get(trigger[p]).admission = "admitted"

\* the calls of onAttemptComplete among the first i callbacks of invocation p
CompletedBefore(p, i) ==
    Cardinality({k \in 1..i : events[p][k].callback = "onAttemptComplete"})

\* C29: once an invocation has returned, every refinement event it reported is
\* followed by a round of the invocation whose query is the event's newQuery, and
\* none was reported after the round that brought the attempt counter to
\* max_attempts.
C29_RefinementOnlyBeforeARound ==
    \A p \in Procs :
        pc[p] = "done" =>
            \A i \in 1..Len(events[p]) :
                events[p][i].callback = "onRefinedSearch" =>
                    /\ \E j \in (i + 1)..Len(events[p]) :
                          /\ events[p][j].callback = "onAttemptStart"
                          /\ events[p][j].query = events[p][i].newQuery
                    /\ CompletedBefore(p, i) < DocMaxAttempts(p)

\* C29 on the policies that carry max_attempts (or no policy at all)
C29_WhenMaxAttemptsGiven ==
    \A p \in Procs :
        ( /\ pc[p] = "done"
          /\ options[p].retryPolicy # None => Get(options[p].retryPolicy).max_attempts # None )
        => \A i \in 1..Len(events[p]) :
              events[p][i].callback = "onRefinedSearch" =>
                  /\ \E j \in (i + 1)..Len(events[p]) :
                        /\ events[p][j].callback = "onAttemptStart"
                        /\ events[p][j].query = events[p][i].newQuery
                  /\ CompletedBefore(p, i) < DocMaxAttempts(p)

\* the converse (this holds): every round but the first comes right after a
\* refinement event, and its query is that event's newQuery
C29_RoundsFollowRefinements ==
    \A p \in Procs :
        \A j \in 2..Len(events[p]) :
            events[p][j].callback = "onAttemptStart" =>
                /\ events[p][j - 1].callback = "onRefinedSearch"
                /\ events[p][j - 1].newQuery = events[p][j].query

\* the reviews of an Attempt in a table, and the table without them
ReviewsOf(reviews, attemptId) ==
    SelectSeq(reviews, LAMBDA row : row.search_attempt_id = attemptId)

ReviewsOfOthers(reviews, attemptId) ==
    SelectSeq(reviews, LAMBDA row : row.search_attempt_id # attemptId)

\* C30: after every call of upsertJudgeReview, in any sequence of calls, the store
\* holds one JudgeReview of the call's Attempt, with the findings and the
\* recommendations of that call, no Attempt has more than one, and the reviews of the
\* other Attempts are as they were.
C30_UpsertStep ==
    (call'.fn = "upsertJudgeReview" /\ (call' # call \/ judge_reviews' # judge_reviews)) =>
        LET data == call'.input
            mine == ReviewsOf(judge_reviews', data.search_attempt_id)
        IN  /\ Len(mine) = 1
            /\ mine[1].overall_judge_findings = data.overall_judge_findings
            /\ mine[1].judge_recommendations = data.judge_recommendations
            /\ \A a \in 1..MaxAttemptIds : Len(ReviewsOf(judge_reviews', a)) <= 1
            /\ ReviewsOfOthers(judge_reviews', data.search_attempt_id)
                  = ReviewsOfOthers(judge_reviews, data.search_attempt_id)

C30_OneReviewPerAttempt == [][C30_UpsertStep]_vars

\* the review of an Attempt was replaced by a later call while a younger review of
\* another Attempt is in the store
C30_Witness ==
    /\ call.fn = "upsertJudgeReview"
    /\ Len(judge_reviews) = MaxAttemptIds
    /\ judge_reviews[1].search_attempt_id = call.input.search_attempt_id
    /\ judge_reviews[1].overall_judge_findings = 11
    /\ judge_reviews[2].overall_judge_findings = 10

\* the Results of the Attempt of the round that invocation p has just had judged carry
\* what the judge said of their item, or null where it said nothing (primed: read in
\* the state after a step)
JudgedAsScored(p, results, attemptId, perRepo) ==
    \A x \in results :
        x.search_attempt_id = attemptId =>
            LET scoredBy == {i \in 1..Len(perRepo) : perRepo[i].full_name = FullName(x.repo_id)}
            IN  IF scoredBy = {}
                THEN x.judge_relevance_score = None /\ x.judge_finding = None
                ELSE \E i \in scoredBy :
                        /\ x.judge_relevance_score = Some(perRepo[i].score)
                        /\ x.judge_finding = Some(perRepo[i].note)

\* the Results of the Attempts that no invocation is working on
OfOtherAttempts ==
    {x \in search_results :
        \A p \in Procs : round[p].attempt = None \/ Get(round[p].attempt).id # x.search_attempt_id}

\* C31: after a successfully judged round every Result of its Attempt whose item the
\* judge scored carries the judge's score and note, the others of the Attempt a null
\* score, and no step of the round changes a Result of another Attempt.
C31_RoundStep ==
    /\ \A p \in Procs :
          pc'[p] = "attemptComplete" =>
              JudgedAsScored(p, search_results', Get(round'[p].attempt).id,
                             Get(round'[p].judge).per_repo)
    /\ \A x \in OfOtherAttempts : x \in search_results'

C31_ScoresOnlyOnOwnAttempt == [][C31_RoundStep]_vars

\* the same with the frame taken of the score update alone (this holds)
C31_ScoreUpdateStep ==
    /\ \A p \in Procs :
          pc'[p] = "attemptComplete" =>
              JudgedAsScored(p, search_results', Get(round'[p].attempt).id,
                             Get(round'[p].judge).per_repo)
    /\ (\E p \in Procs : pc[p] = "updateResultScores" /\ pc'[p] # pc[p]) =>
          \A x \in OfOtherAttempts : x \in search_results'

C31_ScoreUpdateOnlyOnOwnAttempt == [][C31_ScoreUpdateStep]_vars

\* C32: in every state of the store, after aborted rounds and after rounds that
\* insert a known item again, every Result references a repo and an Attempt of the
\* store, and no step removes a Result an earlier round has written.
C32_StoreStep ==
    /\ \A x \in search_results' :
          /\ \E r \in repos' : r.id = x.repo_id
          /\ x.search_attempt_id \in 1..Len(search_attempts')
    /\ \A x \in search_results : \E y \in search_results' : SameTriple(x, y)

C32_ResultsReferenceAndStay == [][C32_StoreStep]_vars

\* the references alone (this holds)
C32_ReferencesExist ==
    \A x \in search_results :
        /\ \E r \in repos : r.id = x.repo_id
        /\ x.search_attempt_id \in 1..Len(search_attempts)

\* the events passed to the emit callback so far
Delivered == {Concat(coalescer.batches)[i] : i \in 1..Len(Concat(coalescer.batches))}

\* C33: every event the coalescer accepts is eventually passed to the emit callback,
\* whether or not flush() is ever called: the buffer never holds maxBatch events past an
\* emit (they are handed over at once), no batch holds more than maxBatch events, and
\* while the buffer is not empty the timer that `timeout` names is pending in the
\* runtime, so that its firing hands the buffer over.
C33_EveryEventDelivered ==
    /\ [](/\ Len(coalescer.buffer) < coalescer.maxBatch
          /\ \A i \in 1..Len(coalescer.batches) :
                Len(coalescer.batches[i].events) <= coalescer.maxBatch
          /\ coalescer.buffer # <<>> =>
                coalescer.timeout # None /\ Get(coalescer.timeout) \in coalescer.timers)
    /\ \A ev \in 1..MaxEvents : (coalescer.emitted >= ev) ~> (ev \in Delivered)

\* no flush() was called: a short batch went out by the timer and a full one by the
\* emit that filled it, and nothing is left in the buffer
C33_Witness ==
    /\ coalescer.flushes = <<>>
    /\ coalescer.emitted = MaxEvents
    /\ coalescer.buffer = <<>>
    /\ \E i, j \in 1..Len(coalescer.batches) :
          /\ coalescer.batches[i].by = "timer"
          /\ Len(coalescer.batches[i].events) < coalescer.maxBatch
          /\ coalescer.batches[j].by = "emit"
    /\ Delivered = 1..MaxEvents

\* C39: every promise that flush() returns is eventually resolved, whatever timer- and
\* size-triggered flushes come in between and also when a call of the emit callback
\* fails.  (The runs in which MaxEvents events are emitted are left out: the promise
\* stays pending while the callers could still emit.)
C39_FlushPromisesSettle ==
    \A k \in 1..MaxFlushes :
        (Len(coalescer.flushes) >= k) ~>
            \/ Len(coalescer.flushes) >= k /\ coalescer.flushes[k].promise \in coalescer.resolved
            \/ coalescer.emitted = MaxEvents

\* C39, the state it excludes: while a promise of flush() is pending, a call of the emit
\* callback is in flight whose performFlush will resolve it.
C39_PendingPromiseHasCall ==
    coalescer.maxBatch > 0 =>
        (coalescer.flushPromise => coalescer.inflight # {})

\* C39, the second flush(): a flush() called on a non-empty buffer while no call of the
\* emit callback is in flight hands the buffer to the callback.
C39_FlushStep ==
    (/\ coalescer.maxBatch > 0
     /\ Len(coalescer'.flushes) > Len(coalescer.flushes)
     /\ coalescer.inflight = {})
        => /\ Len(coalescer'.batches) = Len(coalescer.batches) + 1
           /\ coalescer'.buffer = <<>>

C39_FlushAfterFlushStartsANewOne == [][C39_FlushStep]_vars

\* the characters of s that are neither quotes nor whitespace
Words(s) == SelectSeq(s, LAMBDA ch : ch # Quote /\ ch \notin Whitespace)

\* s is text sanitized: no quote, no whitespace but single spaces, and the other
\* characters are those of text in their order
SanitizedFrom(s, text) ==
    /\ \A i \in 1..Len(s) : s[i] # Quote /\ (s[i] \in Whitespace => s[i] = " ")
    /\ \A i \in 1..(Len(s) - 1) : ~(s[i] = " " /\ s[i + 1] = " ")
    /\ Words(s) = Words(text)

QueriesOf(text, queries, baseKeywords) ==
    IF ~baseKeywords THEN Len(queries) = 1 /\ SanitizedFrom(queries[1], text)
    ELSE /\ Len(queries) = 3
         /\ queries[1] # <<>>
         /\ LET s == Tail(queries[1])
            IN  /\ SanitizedFrom(s, text)
                /\ queries = <<WORKER_KEYWORD_TEMPLATE(s), LANGUAGE_TOPIC_TEMPLATE(s),
                               FRAMEWORK_TEMPLATE(s)>>

\* C34: without the templates buildSearchQueries returns one query, the input with its
\* quotes removed and its whitespace collapsed to single spaces, for every input string,
\* those made of quotes and whitespace only included; with the templates it returns
\* the three templates, in their order, around that same sanitized string.
C34_QueriesAreSanitized ==
    Called("buildSearchQueries") =>
        QueriesOf(call.input.naturalLanguage, Get(call.output), call.input.baseKeywords)

\* C34 for the inputs that hold a character other than quotes and whitespace
C34_WhenAWordIsGiven ==
    (Called("buildSearchQueries") /\ Words(call.input.naturalLanguage) # <<>>) =>
        QueriesOf(call.input.naturalLanguage, Get(call.output), call.input.baseKeywords)

\* the place of a notification in the order of one attempt's notifications
Rank(type) ==
    IF type = "attempt_started" THEN 1
    ELSE IF type = "github_batch" THEN 2
    ELSE IF type = "judge_update" THEN 3
    ELSE 4

\* the places in ws.sent of the notifications that name an attempt
Notifications == {i \in 1..Len(ws.sent) : ws.sent[i].type # "refined_search"}

\* C35: on the socket the notifications that name one attempt are sent in the order
\* attempt_started, github_batch, judge_update, finalized, whenever the timers of the
\* coalescers fire.
C35_NotificationsInOrder ==
    ws.open =>
        \A i, j \in Notifications :
            (i < j /\ ws.sent[i].attempt_id = ws.sent[j].attempt_id) =>
                Rank(ws.sent[i].type) <= Rank(ws.sent[j].type)

\* C35 while one lifecycle only has been started on the socket
C35_InOrderForOneSearch ==
    (ws.open /\ pc["inv2"] = "idle") =>
        \A i, j \in Notifications :
            (i < j /\ ws.sent[i].attempt_id = ws.sent[j].attempt_id) =>
                Rank(ws.sent[i].type) <= Rank(ws.sent[j].type)

\* the calls of onGitHubBatch made so far, of every lifecycle
BatchCalls ==
    UNION { {events[p][i] : i \in {k \in 1..Len(events[p]) : events[p][k].callback = "onGitHubBatch"}} :
            p \in Procs }

\* a github_batch message is the batch of one call of onGitHubBatch: the attempt of
\* the call, its repos and their number
OneBatch(message) ==
    /\ message.count = Len(message.repos)
    /\ \E c \in BatchCalls : c.attemptId = message.attempt_id /\ c.repos = message.repos

\* C36: every github_batch message names one attempt, lists only the items found for
\* that attempt and counts them, also when two start_search messages of one socket
\* run interleaved on the shared coalescer.
C36_BatchOfOneAttempt ==
    ws.open =>
        \A i \in 1..Len(ws.sent) : ws.sent[i].type = "github_batch" => OneBatch(ws.sent[i])

\* C36 where no two lifecycles were given the same attempt
C36_WhenAttemptsDiffer ==
    (ws.open /\ \A c, d \in BatchCalls : c.attemptId = d.attemptId => c = d) =>
        \A i \in 1..Len(ws.sent) : ws.sent[i].type = "github_batch" => OneBatch(ws.sent[i])

\* C36 while one lifecycle only has been started on the socket
C36_ForOneSearch ==
    (ws.open /\ pc["inv2"] = "idle") =>
        \A i \in 1..Len(ws.sent) : ws.sent[i].type = "github_batch" => OneBatch(ws.sent[i])

\* the Results stored for an attempt, and the github_batch messages that name it
ResultsOfAttempt(attemptId) == {x \in search_results : x.search_attempt_id = attemptId}

BatchesOfAttempt(attemptId) ==
    {i \in 1..Len(ws.sent) : ws.sent[i].type = "github_batch" /\ ws.sent[i].attempt_id = attemptId}

\* the total of a finalized message is the number of Results of its attempt and the
\* count of the attempt's github_batch message
TotalsAgree(message) ==
    /\ message.total = Cardinality(ResultsOfAttempt(message.attempt_id))
    /\ BatchesOfAttempt(message.attempt_id) # {}
    /\ \A i \in BatchesOfAttempt(message.attempt_id) : ws.sent[i].count = message.total

\* C40: the totalRepos of a round's summary, sent as the total of its finalized
\* message, is the number of Results stored for the round's attempt and the count its
\* github_batch message announced.
C40_TotalIsResultsIsCount ==
    ws.open =>
        \A i \in 1..Len(ws.sent) : ws.sent[i].type = "finalized" => TotalsAgree(ws.sent[i])

\* C40 while one lifecycle only has been started on the socket
C40_ForOneSearch ==
    (ws.open /\ pc["inv2"] = "idle") =>
        \A i \in 1..Len(ws.sent) : ws.sent[i].type = "finalized" => TotalsAgree(ws.sent[i])

\* C40 for a lone round in which no two queries found the same repo
C40_WhenItemsAreDistinct ==
    (/\ ws.open
     /\ pc["inv2"] = "idle"
     /\ \A c \in BatchCalls : \A i, j \in 1..Len(c.repos) : c.repos[i] = c.repos[j] => i = j) =>
        \A i \in 1..Len(ws.sent) : ws.sent[i].type = "finalized" => TotalsAgree(ws.sent[i])

\* the attempts that createSearchAttempt has returned to the rounds of lifecycle p
AttemptsGivenTo(p) ==
    {events[p][i].attemptId : i \in {k \in 1..Len(events[p]) : events[p][k].callback = "onAttemptStart"}}

\* C37: createSearchAttempt returns the row its own call inserted, so that no two
\* lifecycles running interleaved in one session are given the same attempt: the
\* Results, the JudgeReview and the summary of each round go with an attempt of its own.
C37_EachRoundItsOwnAttempt ==
    \A p, q \in Procs : p # q => AttemptsGivenTo(p) \cap AttemptsGivenTo(q) = {}

\* C37, the summaries returned: as many attempts named as rounds summed up
C37_SummariesOfDistinctAttempts ==
    \A p, q \in Procs : p # q =>
        \A i \in 1..Len(attempts[p]), j \in 1..Len(attempts[q]) :
            attempts[p][i].attemptId # attempts[q][j].attemptId

\* the count as the durable object holds it: in memory, else in storage, else capacity
TokenCount ==
    IF limiter.tokens # None THEN Get(limiter.tokens)
    ELSE IF limiter.stored # None THEN Get(limiter.stored)
    ELSE RateLimiterCapacity

\* C38: while no call of the durable object is in flight, a count below capacity has
\* an alarm scheduled, whatever consume() calls and alarms came before; and from a
\* count below capacity the alarm handler comes to run and to refill the bucket.
C38_DrainedBucketIsRefilled ==
    /\ []((NoCallInFlight(limiter) /\ TokenCount < RateLimiterCapacity) => limiter.alarm # None)
    /\ (NoCallInFlight(limiter) /\ TokenCount < RateLimiterCapacity)
           ~> (limiter.calls["alarm"].pc = "saveState")

\* between two calls, after an alarm has run: the bucket is still below capacity and
\* the next alarm is scheduled
C38_Witness ==
    /\ NoCallInFlight(limiter)
    /\ limiter.wakeups >= 1
    /\ TokenCount < RateLimiterCapacity
    /\ limiter.alarm # None

====
